---- MODULE Spec2Model ----
(***************************************************************************)
(* A model of the recording pipeline of mmorpg_bot: the JSONL event sink,  *)
(* the audio chunk assembler, the screen capture loop with its region      *)
(* retarget hotkey, the gamepad loop of the input recorder, and the        *)
(* shutdown path of the recorder CLI.  Each component has its own          *)
(* specification (SpecWriter, SpecAudio, SpecScreen, SpecGamepad, SpecCli);*)
(* a component's variables stay at their initial value under the other     *)
(* specifications.                                                         *)
(***************************************************************************)
EXTENDS Integers, Sequences, FiniteSets, TLC

VARIABLES
    \* ---- JsonlWriter (data_collection/event_writer.py) and its callers
    wLock,      \* owner of JsonlWriter._lock: a thread id, or Free
    wDisk,      \* characters of the event log already flushed to storage
    wBuf,       \* characters written to the file object, not yet flushed
    wN,         \* JsonlWriter._n
    wOpen,      \* the file object is open
    tPc,        \* per writing thread: position in JsonlWriter.write
    tLine,      \* per writing thread: the local `line` of write()
    tPos,       \* per writing thread: characters of line + "\n" already appended
    tDone,      \* per writing thread: write() calls that returned
    wObjs,      \* the records handed to write() so far
    wParity,    \* which of the callers' records carry a line break in their payload
    wClPc,      \* the caller of close(): its position in JsonlWriter.close
    wCloses,    \* close() calls started
    wClosed,    \* close() calls that returned
    wCloseRaised,   \* a close() call raised
    \* ---- AudioRecorder (data_collection/recorders/audio_recorder.py)
    aRate,      \* samplerate given to the constructor
    aDur,       \* chunk_duration given to the constructor, in hundredths of a second
    aChunkFrames,   \* self._chunk_frames
    aRunning,   \* self._running
    aStream,    \* self._stream: "none", "active" (started), "stopped"
    aQueue,     \* self._queue: blocks, and the None sentinel
    aPending,   \* self._pending
    aPendingSamples,    \* self._pending_samples
    aSeq,       \* self._seq
    aChunks,    \* the chunk files written, in order
    aEvents,    \* the events the recorder wrote to the sink, in order
    aWPc,       \* position of the writer thread in _writer_loop
    aMainPc,    \* position of the thread calling start() and stop()
    aDelivered, \* every sample the backend callback delivered, in arrival order
    aConsumed,  \* every sample of the blocks the writer loop took from the queue
    aCalls,     \* number of callbacks so far
    \* ---- ScreenRecorder (data_collection/recorders/screen_recorder.py)
    sDx,        \* _DX: the dxcam backend is the one imported
    sRegion,    \* self._region (NoRegion for None)
    sRunning,   \* self._running
    sStopCalled,    \* stop() has been called
    sStops,         \* stop() calls so far
    sStopRaised,    \* some stop() call raised
    sFailed,        \* an iteration of the capture loop raised
    sPc,        \* position of the capture thread in run()
    sUsed,      \* the region the current iteration read from self._region
    sCap,       \* self._region at the instant the current frame was grabbed
    sIdx,       \* self._idx
    sFrames,    \* the frame files saved, in order
    sLog,       \* the events the recorder wrote to the sink, in order
    kPc,        \* position of the hotkey listener thread in _on_key_press
    sRetargets, \* F9 presses handled so far
    sSinkOk,    \* the sink's write() succeeds
    sSwallowed, \* a failure of the sink's write() was caught and dropped in the recorder
    \* ---- InputRecorder's gamepad loop (data_collection/recorders/input_recorder.py)
    gStop,      \* self._stop_event is set
    gPc,        \* position of the gamepad thread in _gamepad_loop
    gBatch,     \* the events of the current get_gamepad() result not yet iterated
    gConnected, \* the controller is plugged in
    gSeen,      \* the controller's state according to the events iterated so far
    gLast,      \* the controller's state when the last gamepad event was emitted
    gEmitted,   \* a gamepad event has been emitted
    gLog,       \* the gamepad events written to the sink, in order
    gStatus,    \* self._status_messages
    gReads,     \* get_gamepad() calls so far
    gKbd,       \* the keyboard listener: "off", "listening" or "stopped"
    gKeys,      \* keyboard callbacks so far
    gGen,       \* Event objects the recorder has created so far
    gKeyEv,     \* the Event a keyboard callback has created and not yet written
    gMainPc,    \* the caller of InputRecorder.stop(): its position
    \* ---- recorder CLI: main(), _stop and the threads it starts (apps/recorder_cli.py)
    cHasInput,  \* --inputs: input_rec is an InputRecorder, not None
    cHasAudio,  \* audio_rec is a started AudioRecorder, not None
    cFrames,    \* call stack of the main thread: main(), and _stop invocations on top
    cSignals,   \* SIGINT/SIGTERM deliveries so far
    cStopCalls, \* invocations of _stop so far
    cRaised,    \* the invocations of _stop in which an exception was raised
    cCrashed,   \* main() was left by an uncaught exception
    cStopEvent, \* stop_event is set
    cInRunning, \* input_rec._running
    cLock,      \* owner of JsonlWriter._lock and of InputRecorder._status_lock
    cOpen,      \* the sink's file is open
    cWritten,   \* JsonlWriter._n
    cCloseCalls,    \* calls of writer.close() that have started
    pPc,        \* per producer thread: its position
    pRun,       \* per producer thread: the flag its loop tests
    pWrites,    \* per producer thread: events written
    cLate,      \* a producer called write() after a close() had started
    \* ---- SessionManager and Session (data_collection/session_manager.py, sdk/runtime.py)
    mClock,     \* the monotonic clock, now_monotonic_ns()
    mStartNs,   \* Session.start_ns
    mStatus,    \* "status" in session_meta.json; "none" while the file does not exist
    mWOpen,     \* the Session's own writer is open
    mCalls,     \* start() and stop() calls so far
    mFirstOrigin,   \* start_ns as the first start() set it; 0 before
    mEverStopped,   \* a stop() has been called
    mTimer,     \* a SessionTimer: started_ns, stopped_ns, running
    mRead,      \* the last reading of a session clock and how it ended
    mCfg,       \* the caller's SessionConfig object, which the manager refers to: its fps
    mDoc,       \* session_meta.json as last written, NoDoc before
    mDoc0,      \* session_meta.json as first written, NoDoc before
    mLast,      \* the last lifecycle call that completed: "none", "start", "stop"
    \* ---- recorder CLI: main() up to the start of the producers (apps/recorder_cli.py)
    lCfg,       \* the options of the run and which optional libraries imported
    lPc,        \* position in main()
    lLog,       \* the events written to the event log
    lStarted,   \* the producers and input backends that were started
    lStatus,    \* InputRecorder._status_messages
    lEcho,      \* lines main() printed on stderr
    lGiven,     \* which of --left --top --right --bottom were given
    lRegion,    \* the region handed to ScreenRecorder, "unset" before
    \* ---- SystemRecorder (data_collection/recorders/system_recorder.py)
    yStop,      \* self._stop_event is set
    yThread,    \* self._thread: the id of a polling thread, or NoThread
    yMainPc,    \* the caller of start() and stop(): its position
    yPc,        \* per polling thread: its position in _run
    yMsg,       \* per polling thread: the message _emit_error was called with
    yThen,      \* per polling thread: a system event follows the error notice
    yEmitted,   \* self._emitted_errors
    yLog,       \* the events written to the sink, in order
    yStarts,    \* polling threads created so far
    yTicks,     \* samples begun so far
    yOccurred   \* the error messages that have occurred

closeVars == <<wClPc, wCloses, wClosed, wCloseRaised>>

writerVars == <<wLock, wDisk, wBuf, wN, wOpen, tPc, tLine, tPos, tDone, wObjs, wParity,
                closeVars>>

audioVars == <<aRate, aDur, aChunkFrames, aRunning, aStream, aQueue, aPending,
               aPendingSamples, aSeq, aChunks, aEvents, aWPc, aMainPc, aDelivered,
               aConsumed, aCalls>>

screenVars == <<sDx, sRegion, sRunning, sStopCalled, sStops, sStopRaised, sFailed, sPc, sUsed, sCap, sIdx, sFrames,
                sLog, kPc, sRetargets, sSinkOk, sSwallowed>>

padVars == <<gStop, gPc, gBatch, gConnected, gSeen, gLast, gEmitted, gLog, gStatus, gReads,
             gKbd, gKeys, gGen, gKeyEv, gMainPc>>

cliVars == <<cHasInput, cHasAudio, cFrames, cSignals, cStopCalls, cRaised, cCrashed,
             cStopEvent, cInRunning, cLock, cOpen, cWritten, cCloseCalls, pPc, pRun,
             pWrites, cLate>>

sessVars == <<mClock, mStartNs, mStatus, mWOpen, mCalls, mFirstOrigin, mEverStopped,
              mTimer, mRead, mCfg, mDoc, mDoc0, mLast>>

launchVars == <<lCfg, lPc, lLog, lStarted, lStatus, lEcho, lGiven, lRegion>>

VARIABLES
    hEnv,       \* which of the CONANBOT_*_ROOT variables are set
    hSdk,       \* sdk.config can be imported
    hFiles,     \* the paths that are regular files
    hDirs,      \* the directories that exist
    hSingleton, \* _paths_singleton: the roots of the cached Paths, NoPaths for None
    hChanges,   \* changes of the environment so far
    hCall       \* the last get_paths call: its argument, what it saw, how it ended

pathVars == <<hEnv, hSdk, hFiles, hDirs, hSingleton, hChanges, hCall>>

VARIABLES
    dArgs,      \* what _resolve_device works on: the requested channels, the device, the options
    dRes        \* what _resolve_device came to, NoResult before the call

deviceVars == <<dArgs, dRes>>

VARIABLES
    eBuf,       \* JsonlEventWriter: what was written to self.f and not flushed yet
    eDisk,      \* JsonlEventWriter: what a reader of the file sees
    ePc,        \* per thread: position in write(): "idle", "nl", "flush"
    eN          \* per thread: write() calls that returned

plugVars == <<eBuf, eDisk, ePc, eN>>

VARIABLES
    uFile,      \* events.jsonl, as a reader sees it
    uLines,     \* lines appended to the file since the connection was accepted
    uLast,      \* ws_events: last_size
    uCur,       \* ws_events: cur
    uPc,        \* ws_events: "sleep", "read"
    uSent       \* the texts sent over the WebSocket, in order

tailVars == <<uFile, uLines, uLast, uCur, uPc, uSent>>

VARIABLES
    zConf,      \* S3EventWriter: a client and a bucket are configured
    zBuf,       \* S3EventWriter._buf, its text
    zCount,     \* S3EventWriter._count
    zPart,      \* S3EventWriter._part
    zStore,     \* the bucket: part number -> body of the object, <<>> if absent
    zWritten,   \* the events given to write(), in order
    zLog        \* the calls made on the writer, with their outcome

s3Vars == <<zConf, zBuf, zCount, zPart, zStore, zWritten, zLog>>

sysVars == <<yStop, yThread, yMainPc, yPc, yMsg, yThen, yEmitted, yLog, yStarts, yTicks,
             yOccurred>>

vars == <<writerVars, audioVars, screenVars, padVars, cliVars, sessVars, launchVars, sysVars, pathVars, deviceVars, plugVars, tailVars, s3Vars>>

nonWriterVars == <<audioVars, screenVars, padVars, cliVars, sessVars, launchVars, sysVars, pathVars, deviceVars, plugVars, tailVars, s3Vars>>
nonAudioVars == <<writerVars, screenVars, padVars, cliVars, sessVars, launchVars, sysVars, pathVars, deviceVars, plugVars, tailVars, s3Vars>>
nonScreenVars == <<writerVars, audioVars, padVars, cliVars, sessVars, launchVars, sysVars, pathVars, deviceVars, plugVars, tailVars, s3Vars>>
nonPadVars == <<writerVars, audioVars, screenVars, cliVars, sessVars, launchVars, sysVars, pathVars, deviceVars, plugVars, tailVars, s3Vars>>
nonCliVars == <<writerVars, audioVars, screenVars, padVars, sessVars, launchVars, sysVars, pathVars, deviceVars, plugVars, tailVars, s3Vars>>
nonSessVars == <<writerVars, audioVars, screenVars, padVars, cliVars, launchVars, sysVars, pathVars, deviceVars, plugVars, tailVars, s3Vars>>
nonLaunchVars == <<writerVars, audioVars, screenVars, padVars, cliVars, sessVars, sysVars, pathVars, deviceVars, plugVars, tailVars, s3Vars>>
nonSysVars == <<writerVars, audioVars, screenVars, padVars, cliVars, sessVars, launchVars, pathVars, deviceVars, plugVars, tailVars, s3Vars>>
nonPathVars == <<writerVars, audioVars, screenVars, padVars, cliVars, sessVars, launchVars, sysVars, deviceVars, plugVars, tailVars, s3Vars>>
nonDeviceVars == <<writerVars, audioVars, screenVars, padVars, cliVars, sessVars, launchVars, sysVars, pathVars, plugVars, tailVars, s3Vars>>
nonPlugVars == <<writerVars, audioVars, screenVars, padVars, cliVars, sessVars, launchVars, sysVars, pathVars, deviceVars, tailVars, s3Vars>>
nonTailVars == <<writerVars, audioVars, screenVars, padVars, cliVars, sessVars, launchVars, sysVars, pathVars, deviceVars, plugVars, s3Vars>>
nonS3Vars == <<writerVars, audioVars, screenVars, padVars, cliVars, sessVars, launchVars, sysVars, pathVars, deviceVars, plugVars, tailVars>>

-----------------------------------------------------------------------------
(* Bounds of the model *)

NThreads == 2
MWrites == 2

(* flush_every of the writer under test *)
FlushEvery == 3

(* close() calls made on one writer *)
MaxCloses == 2

(* audio: samples delivered in one run, longest callback block, callbacks *)
MaxSamples == 4
MaxBlockLen == 2
MaxCalls == 3

(* screen: frames captured and F9 presses handled in one run *)
MaxFrames == 2
MaxRetargets == 2
MaxStops == 2
MaxEnvChanges == 1

(* event tail: lines appended to events.jsonl while a client is connected *)
MaxAppends == 4

(* S3EventWriter: rotate_every of the writer, and the calls made on it *)
RotateEvery == 2
MaxS3Calls == 6

(* JsonlEventWriter plugin: write() calls of one thread *)
MaxPlugWrites == 2

(* gamepad: get_gamepad() calls in one run *)
MaxReads == 3
MaxKeys == 1

(* session: ticks of the monotonic clock, lifecycle calls on one manager *)
MaxTicks == 3
MaxSessCalls == 4

(* system sampler: polling threads one recorder creates, samples begun *)
MaxSysStarts == 2
MaxSysTicks == 3

(* CLI: signals delivered to the process, events one producer thread writes *)
MaxSignals == 2
MaxProdWrites == 1

-----------------------------------------------------------------------------
(* Generic helpers *)

RECURSIVE Flatten(_)
Flatten(ss) == IF ss = <<>> THEN <<>> ELSE Head(ss) \o Flatten(Tail(ss))

RECURSIVE SumLen(_)
SumLen(ss) == IF ss = <<>> THEN 0 ELSE Len(Head(ss)) + SumLen(Tail(ss))

-----------------------------------------------------------------------------
(* JsonlWriter *)

Free == 0
Threads == 1..NThreads

NL == "\n"
Digit == <<"0", "1", "2", "3", "4", "5", "6", "7", "8", "9">>

\* The string payload of the k-th record of thread t: a plain character, or a
\* line break for the records the run's parity selects.
PayloadOf(t, k) == IF (t + k) % 2 = wParity THEN <<NL>> ELSE <<"a">>

\* The record the k-th write() of thread t is given.
MkObj(t, k, p) == [src |-> t, n |-> k, data |-> p]

\* json.dumps escapes control characters inside strings: a line break becomes
\* the two characters backslash, n.
RECURSIVE JsonEscape(_)
JsonEscape(s) ==
    IF s = <<>> THEN <<>>
    ELSE (IF Head(s) = NL THEN <<"\\", "n">> ELSE <<Head(s)>>) \o JsonEscape(Tail(s))

JsonDumps(obj) ==
    <<"{", Digit[obj.src + 1], Digit[obj.n + 1]>> \o JsonEscape(obj.data) \o <<"}">>

\* line = json.dumps(obj, ensure_ascii=False)
WriteDumps(t) ==
    /\ tPc[t] = "idle"
    /\ tDone[t] < MWrites
    /\ LET obj == MkObj(t, tDone[t] + 1, PayloadOf(t, tDone[t] + 1)) IN
         /\ tLine' = [tLine EXCEPT ![t] = JsonDumps(obj)]
         /\ wObjs' = wObjs \cup {obj}
    /\ tPc' = [tPc EXCEPT ![t] = "lock"]
    /\ UNCHANGED <<wLock, wDisk, wBuf, wN, wOpen, tPos, tDone, wParity>>
    /\ UNCHANGED <<closeVars, nonWriterVars>>

\* A lock whose acquire never waits (the write not serialized).
LockFreeNoWait(l) == TRUE

\* Lock.acquire as coded: it blocks until the lock is free.
LockFree(l) == l = Free

\* with self._lock:
WriteAcquire(t) ==
    /\ tPc[t] = "lock"
    /\ LockFree(wLock)
    /\ wLock' = t
    /\ tPos' = [tPos EXCEPT ![t] = 0]
    /\ tPc' = [tPc EXCEPT ![t] = "fwrite"]
    /\ UNCHANGED <<wDisk, wBuf, wN, wOpen, tLine, tDone, wObjs, wParity>>
    /\ UNCHANGED <<closeVars, nonWriterVars>>

\* self._f.write(line + "\n"): the characters reach the file object's buffer
\* one after the other.
WriteChars(t) ==
    /\ tPc[t] = "fwrite"
    /\ wOpen
    /\ LET text == tLine[t] \o <<NL>> IN
         /\ tPos[t] < Len(text)
         /\ wBuf' = Append(wBuf, text[tPos[t] + 1])
         /\ tPos' = [tPos EXCEPT ![t] = tPos[t] + 1]
         /\ tPc' = [tPc EXCEPT ![t] = IF tPos[t] + 1 = Len(text) THEN "count" ELSE "fwrite"]
    /\ UNCHANGED <<wLock, wDisk, wN, wOpen, tLine, tDone, wObjs, wParity>>
    /\ UNCHANGED <<closeVars, nonWriterVars>>

\* A writer that flushes one write late.
FlushDueLate(n) == n % (FlushEvery + 1) = 0

\* if self._n % self._flush_every == 0
FlushDue(n) == n % FlushEvery = 0

\* self._n += 1; if self._n % self._flush_every == 0: self._f.flush()
WriteCount(t) ==
    /\ tPc[t] = "count"
    /\ wN' = wN + 1
    /\ IF FlushDue(wN + 1)
         THEN wDisk' = wDisk \o wBuf /\ wBuf' = <<>>
         ELSE UNCHANGED <<wDisk, wBuf>>
    /\ tPc' = [tPc EXCEPT ![t] = "unlock"]
    /\ UNCHANGED <<wLock, wOpen, tLine, tPos, tDone, wObjs, wParity>>
    /\ UNCHANGED <<closeVars, nonWriterVars>>

\* leaving the with block releases the lock; write() returns
WriteRelease(t) ==
    /\ tPc[t] = "unlock"
    /\ wLock' = Free
    /\ tDone' = [tDone EXCEPT ![t] = tDone[t] + 1]
    /\ tPc' = [tPc EXCEPT ![t] = "idle"]
    /\ UNCHANGED <<wDisk, wBuf, wN, wOpen, tLine, tPos, wObjs, wParity>>
    /\ UNCHANGED <<closeVars, nonWriterVars>>

WriterInit ==
    /\ wLock = Free
    /\ wDisk = <<>>
    /\ wBuf = <<>>
    /\ wN = 0
    /\ wOpen = TRUE
    /\ tPc = [t \in Threads |-> "idle"]
    /\ tLine = [t \in Threads |-> <<>>]
    /\ tPos = [t \in Threads |-> 0]
    /\ tDone = [t \in Threads |-> 0]
    /\ wObjs = {}
    /\ wParity \in {0, 1}
    /\ wClPc = "idle"
    /\ wCloses = 0
    /\ wClosed = 0
    /\ wCloseRaised = FALSE

\* The writer component at rest, under the other components' specifications.
WriterParked == WriterInit /\ wParity = 0

WriterSteps ==
    \E t \in Threads :
        \/ WriteDumps(t)
        \/ WriteAcquire(t)
        \/ WriteChars(t)
        \/ WriteCount(t)
        \/ WriteRelease(t)

\* The lock owner id of the thread that calls close().
Closer == NThreads + 1

\* self._f.write on a closed file raises ValueError: the with block releases
\* the lock and write() is left by the exception
WriteFails(t) ==
    /\ tPc[t] = "fwrite"
    /\ ~wOpen
    /\ wLock' = Free
    /\ tPc' = [tPc EXCEPT ![t] = "raised"]
    /\ UNCHANGED <<wDisk, wBuf, wN, wOpen, tLine, tPos, tDone, wObjs, wParity>>
    /\ UNCHANGED <<closeVars, nonWriterVars>>

\* close() is called
CloseCall ==
    /\ wClPc = "idle"
    /\ wCloses < MaxCloses
    /\ wClPc' = "lock"
    /\ wCloses' = wCloses + 1
    /\ UNCHANGED <<wLock, wDisk, wBuf, wN, wOpen, tPc, tLine, tPos, tDone, wObjs, wParity>>
    /\ UNCHANGED <<wClosed, wCloseRaised, nonWriterVars>>

\* close(): with self._lock
CloseAcquire ==
    /\ wClPc = "lock"
    /\ LockFree(wLock)
    /\ wLock' = Closer
    /\ wClPc' = "flush"
    /\ UNCHANGED <<wDisk, wBuf, wN, wOpen, tPc, tLine, tPos, tDone, wObjs, wParity>>
    /\ UNCHANGED <<wCloses, wClosed, wCloseRaised, nonWriterVars>>

\* A close() that releases the file without writing its buffer out.
CloseDiscards(disk, buf) == disk

\* What storage holds after self._f.flush() on an open file.
CloseFlushed(disk, buf) == disk \o buf

\* close(): try: self._f.flush() finally: self._f.close(), then the lock is
\* released.  On a closed file flush() raises ValueError; the finally clause's
\* close() does nothing and the exception leaves close().
CloseBody ==
    /\ wClPc = "flush"
    /\ IF wOpen
       THEN /\ wDisk' = CloseFlushed(wDisk, wBuf)
            /\ wBuf' = <<>>
            /\ wOpen' = FALSE
            /\ wClosed' = wClosed + 1
            /\ UNCHANGED wCloseRaised
       ELSE /\ wCloseRaised' = TRUE
            /\ UNCHANGED <<wDisk, wBuf, wOpen, wClosed>>
    /\ wLock' = Free
    /\ wClPc' = "idle"
    /\ UNCHANGED <<wN, tPc, tLine, tPos, tDone, wObjs, wParity, wCloses, nonWriterVars>>

\* The threads that write while the writer is also being closed.
LifeThreads == {1, 2}

\* The writer with its close(): the writing threads and the closing caller.
WriterLifeSteps ==
    \/ \E t \in LifeThreads :
          \/ WriteDumps(t)
          \/ WriteAcquire(t)
          \/ WriteChars(t)
          \/ WriteCount(t)
          \/ WriteRelease(t)
          \/ WriteFails(t)
    \/ CloseCall
    \/ CloseAcquire
    \/ CloseBody

\* The event log as a reader of the file object sees it.
LogText == wDisk \o wBuf

\* The complete (newline-terminated) lines of a text, in order.
RECURSIVE LinesOf(_, _)
LinesOf(text, cur) ==
    IF text = <<>> THEN <<>>
    ELSE IF Head(text) = NL THEN <<cur>> \o LinesOf(Tail(text), <<>>)
    ELSE LinesOf(Tail(text), Append(cur, Head(text)))

\* What follows the last line break of a text.
RECURSIVE TailLine(_, _)
TailLine(text, cur) ==
    IF text = <<>> THEN cur
    ELSE IF Head(text) = NL THEN TailLine(Tail(text), <<>>)
    ELSE TailLine(Tail(text), Append(cur, Head(text)))

\* The records whose write() has returned and whose line is not in storage.
UnflushedReturned ==
    {o \in wObjs : /\ o.n <= tDone[o.src]
                   /\ \E i \in 1..Len(LinesOf(wBuf, <<>>)) : LinesOf(wBuf, <<>>)[i] = JsonDumps(o)}

AllWritesDone == \A t \in Threads : tPc[t] = "idle" /\ tDone[t] = MWrites


-----------------------------------------------------------------------------
(* AudioRecorder *)

Max(a, b) == IF a >= b THEN a ELSE b
Min(a, b) == IF a <= b THEN a ELSE b

\* Python's round() of the fraction num/den: to the nearest integer, a tie to
\* the even one.
RoundHalfEven(num, den) ==
    LET q == num \div den
        r == num % den
    IN  IF 2 * r < den THEN q
        ELSE IF 2 * r > den THEN q + 1
        ELSE IF q % 2 = 0 THEN q ELSE q + 1

\* __init__ with int() in place of round().
ChunkFramesTruncated(rate, dur) == Max(1, (rate * Max(10, dur)) \div 100)

\* __init__: self._chunk_duration = max(0.1, float(chunk_duration))
\*           self._chunk_frames = max(1, int(round(samplerate * self._chunk_duration)))
\* with durations counted in hundredths of a second.
ChunkFramesOf(rate, dur) == Max(1, RoundHalfEven(rate * Max(10, dur), 100))

\* The constructor arguments of the runs explored.
Rates == {10, 20}
Durations == {5, 15}

QBlock(b) == [none |-> FALSE, blk |-> b]
QNone == [none |-> TRUE, blk |-> <<>>]

\* _pop_samples dropping what is left of a block it splits.
RECURSIVE PopSamplesDropRest(_, _)
PopSamplesDropRest(pend, needed) ==
    IF needed > 0 /\ pend # <<>>
    THEN LET cur == Head(pend) IN
         IF Len(cur) <= needed
         THEN LET r == PopSamplesDropRest(Tail(pend), needed - Len(cur)) IN
              [chunk |-> cur \o r.chunk, pending |-> r.pending, taken |-> Len(cur) + r.taken]
         ELSE [chunk |-> SubSeq(cur, 1, needed), pending |-> Tail(pend), taken |-> needed]
    ELSE [chunk |-> <<>>, pending |-> pend, taken |-> 0]

\* A _pop_samples that, when it splits a block, subtracts the whole block
\* from _pending_samples.
RECURSIVE PopSamplesMiscount(_, _)
PopSamplesMiscount(pend, needed) ==
    IF needed > 0 /\ pend # <<>>
    THEN LET cur == Head(pend) IN
         IF Len(cur) <= needed
         THEN LET r == PopSamplesMiscount(Tail(pend), needed - Len(cur)) IN
              [chunk |-> cur \o r.chunk, pending |-> r.pending, taken |-> Len(cur) + r.taken]
         ELSE [chunk |-> SubSeq(cur, 1, needed),
               pending |-> <<SubSeq(cur, needed + 1, Len(cur))>> \o Tail(pend),
               taken |-> Len(cur)]
    ELSE [chunk |-> <<>>, pending |-> pend, taken |-> 0]

\* _pop_samples(n_samples): the samples popped (np.concatenate(parts)), the
\* pending list left, and the amount subtracted from _pending_samples.
RECURSIVE PopSamples(_, _)
PopSamples(pend, needed) ==
    IF needed > 0 /\ pend # <<>>
    THEN LET cur == Head(pend) IN
         IF Len(cur) <= needed
         THEN LET r == PopSamples(Tail(pend), needed - Len(cur)) IN
              [chunk |-> cur \o r.chunk, pending |-> r.pending, taken |-> Len(cur) + r.taken]
         ELSE [chunk |-> SubSeq(cur, 1, needed),
               pending |-> <<SubSeq(cur, needed + 1, Len(cur))>> \o Tail(pend),
               taken |-> needed]
    ELSE [chunk |-> <<>>, pending |-> pend, taken |-> 0]

\* The decimal digits of a natural number, most significant first.
RECURSIVE DigitsOf(_)
DigitsOf(n) ==
    IF n < 10 THEN <<Digit[n + 1]>> ELSE DigitsOf(n \div 10) \o <<Digit[(n % 10) + 1]>>

\* Format spec 0w d: zeros are put in front up to width w, a longer number
\* is left as it is.
RECURSIVE ZeroPad(_, _)
ZeroPad(d, w) == IF Len(d) >= w THEN d ELSE ZeroPad(<<"0">> \o d, w)

\* fname = f"audio_{self._seq:06d}.wav": the digits between prefix and suffix
ChunkName(seq) == ZeroPad(DigitsOf(seq), 6)

\* A _write_chunk that leaves the counter where it is.
NextSeqStuck(seq) == seq

\* self._seq += 1
NextSeq(seq) == seq + 1

AudioEvent(seq, n) ==
    [kind |-> "audio", seq |-> seq, path |-> ChunkName(seq), samples |-> n, state |-> ""]
AudioMeta(state) == [kind |-> "meta", seq |-> 0, path |-> <<>>, samples |-> 0, state |-> state]

\* start(), up to the start of the writer thread
AudioStartThread ==
    /\ aMainPc = "new"
    /\ aRunning' = TRUE
    /\ aWPc' = "get"
    /\ aMainPc' = "starting"
    /\ UNCHANGED <<aRate, aDur, aChunkFrames, aStream, aQueue, aPending, aPendingSamples,
                   aSeq, aChunks, aEvents, aDelivered, aConsumed, aCalls>>
    /\ UNCHANGED nonAudioVars

\* start(): the stream is created and started, then _emit_meta("started")
AudioStartStream ==
    /\ aMainPc = "starting"
    /\ aStream' = "active"
    /\ aEvents' = Append(aEvents, AudioMeta("started"))
    /\ aMainPc' = "run"
    /\ UNCHANGED <<aRate, aDur, aChunkFrames, aRunning, aQueue, aPending, aPendingSamples,
                   aSeq, aChunks, aWPc, aDelivered, aConsumed, aCalls>>
    /\ UNCHANGED nonAudioVars

\* start() raises: in _resolve_device or check_input_settings, before
\* anything is set, or in _create_stream or self._stream.start(), after
\* _running was set and the writer thread started; nothing is undone
AudioStartRaises ==
    /\ aMainPc \in {"new", "starting"}
    /\ aMainPc' = "start_failed"
    /\ UNCHANGED <<aRate, aDur, aChunkFrames, aRunning, aStream, aQueue, aPending,
                   aPendingSamples, aSeq, aChunks, aEvents, aWPc, aDelivered, aConsumed,
                   aCalls>>
    /\ UNCHANGED nonAudioVars

\* self._queue = queue.Queue(): no maxsize is given, so put() never finds
\* the queue full
QueueFull(q) == FALSE

\* _audio_callback, on the backend's thread: a block of any length, empty
\* ones included, is copied into the queue.
AudioCallback ==
    /\ aStream = "active"
    /\ aCalls < MaxCalls
    /\ ~QueueFull(aQueue)
    /\ \E n \in 0..MaxBlockLen :
         /\ Len(aDelivered) + n <= MaxSamples
         /\ LET blk == [i \in 1..n |-> Len(aDelivered) + i] IN
              /\ aQueue' = Append(aQueue, QBlock(blk))
              /\ aDelivered' = aDelivered \o blk
    /\ aCalls' = aCalls + 1
    /\ UNCHANGED <<aRate, aDur, aChunkFrames, aRunning, aStream, aPending, aPendingSamples,
                   aSeq, aChunks, aEvents, aWPc, aMainPc, aConsumed>>
    /\ UNCHANGED nonAudioVars

\* _writer_loop: self._queue.get() returned an item
WriterGet ==
    /\ aWPc = "get"
    /\ aQueue # <<>>
    /\ aQueue' = Tail(aQueue)
    /\ IF Head(aQueue).none
         THEN /\ aWPc' = "flush"
              /\ UNCHANGED <<aPending, aPendingSamples, aConsumed>>
         ELSE /\ aPending' = Append(aPending, Head(aQueue).blk)
              /\ aPendingSamples' = aPendingSamples + Len(Head(aQueue).blk)
              /\ aConsumed' = aConsumed \o Head(aQueue).blk
              /\ aWPc' = "loop"
    /\ UNCHANGED <<aRate, aDur, aChunkFrames, aRunning, aStream, aSeq, aChunks, aEvents,
                   aMainPc, aDelivered, aCalls>>
    /\ UNCHANGED nonAudioVars

\* _writer_loop: the get timed out on an empty queue and _running is false
WriterTimeout ==
    /\ aWPc = "get"
    /\ aQueue = <<>>
    /\ ~aRunning
    /\ aWPc' = "flush"
    /\ UNCHANGED <<aRate, aDur, aChunkFrames, aRunning, aStream, aQueue, aPending,
                   aPendingSamples, aSeq, aChunks, aEvents, aMainPc, aDelivered,
                   aConsumed, aCalls>>
    /\ UNCHANGED nonAudioVars

\* _writer_loop: one turn of `while self._pending_samples >= self._chunk_frames`
WriterLoop ==
    /\ aWPc = "loop"
    /\ IF aPendingSamples >= aChunkFrames
         THEN LET r == PopSamples(aPending, aChunkFrames) IN
              /\ aPending' = r.pending
              /\ aPendingSamples' = aPendingSamples - r.taken
              /\ IF r.chunk # <<>>
                   THEN /\ aChunks' = Append(aChunks, [seq |-> aSeq, name |-> ChunkName(aSeq), samples |-> r.chunk,
                                                          final |-> FALSE])
                        /\ aEvents' = Append(aEvents, AudioEvent(aSeq, Len(r.chunk)))
                        /\ aSeq' = NextSeq(aSeq)
                   ELSE UNCHANGED <<aChunks, aEvents, aSeq>>
              /\ UNCHANGED aWPc
         ELSE /\ aWPc' = "get"
              /\ UNCHANGED <<aPending, aPendingSamples, aChunks, aEvents, aSeq>>
    /\ UNCHANGED <<aRate, aDur, aChunkFrames, aRunning, aStream, aQueue, aMainPc,
                   aDelivered, aConsumed, aCalls>>
    /\ UNCHANGED nonAudioVars

\* _writer_loop after the loop: flush what is pending as a final chunk
WriterFlush ==
    /\ aWPc = "flush"
    /\ LET r == PopSamples(aPending, aPendingSamples) IN
         IF aPendingSamples # 0 /\ r.chunk # <<>>
         THEN /\ aChunks' = Append(aChunks, [seq |-> aSeq, name |-> ChunkName(aSeq), samples |-> r.chunk,
                                                final |-> TRUE])
              /\ aEvents' = Append(aEvents, AudioEvent(aSeq, Len(r.chunk)))
              /\ aSeq' = NextSeq(aSeq)
         ELSE UNCHANGED <<aChunks, aEvents, aSeq>>
    /\ aPending' = <<>>
    /\ aPendingSamples' = 0
    /\ aWPc' = "done"
    /\ UNCHANGED <<aRate, aDur, aChunkFrames, aRunning, aStream, aQueue, aMainPc,
                   aDelivered, aConsumed, aCalls>>
    /\ UNCHANGED nonAudioVars

\* stop(): self._running = False
AudioStopFlag ==
    /\ aMainPc = "run"
    /\ aRunning' = FALSE
    /\ aMainPc' = "stop_stream"
    /\ UNCHANGED <<aRate, aDur, aChunkFrames, aStream, aQueue, aPending, aPendingSamples,
                   aSeq, aChunks, aEvents, aWPc, aDelivered, aConsumed, aCalls>>
    /\ UNCHANGED nonAudioVars

\* stop(): self._stream.stop(); self._stream.close()
AudioStopStream ==
    /\ aMainPc = "stop_stream"
    /\ aStream' = "stopped"
    /\ aMainPc' = "stop_put"
    /\ UNCHANGED <<aRate, aDur, aChunkFrames, aRunning, aQueue, aPending, aPendingSamples,
                   aSeq, aChunks, aEvents, aWPc, aDelivered, aConsumed, aCalls>>
    /\ UNCHANGED nonAudioVars

\* stop(): self._queue.put(None)
AudioStopPut ==
    /\ aMainPc = "stop_put"
    /\ aQueue' = Append(aQueue, QNone)
    /\ aMainPc' = "stop_join"
    /\ UNCHANGED <<aRate, aDur, aChunkFrames, aRunning, aStream, aPending, aPendingSamples,
                   aSeq, aChunks, aEvents, aWPc, aDelivered, aConsumed, aCalls>>
    /\ UNCHANGED nonAudioVars

\* A join without a timeout: it returns only when the thread has ended.
JoinUnbounded(wpc) == wpc = "done"

\* self._writer_thread.join(timeout=5.0): it returns when the thread has
\* ended or when the 5 s have passed, whichever comes first.
JoinReturns(wpc) == wpc = "done" \/ wpc # "done"

\* stop(): self._writer_thread.join(timeout=5.0) returns, the thread ended or
\* not, then _emit_meta("stopped")
AudioStopJoin ==
    /\ aMainPc = "stop_join"
    /\ JoinReturns(aWPc)
    /\ aEvents' = Append(aEvents, AudioMeta("stopped"))
    /\ aMainPc' = "stopped"
    /\ UNCHANGED <<aRate, aDur, aChunkFrames, aRunning, aStream, aQueue, aPending,
                   aPendingSamples, aSeq, aChunks, aWPc, aDelivered, aConsumed, aCalls>>
    /\ UNCHANGED nonAudioVars

AudioConstructed(rate, dur) ==
    /\ aRate = rate
    /\ aDur = dur
    /\ aChunkFrames = ChunkFramesOf(rate, dur)
    /\ aRunning = FALSE
    /\ aStream = "none"
    /\ aQueue = <<>>
    /\ aPending = <<>>
    /\ aPendingSamples = 0
    /\ aSeq = 0
    /\ aChunks = <<>>
    /\ aEvents = <<>>
    /\ aWPc = "none"
    /\ aMainPc = "new"
    /\ aDelivered = <<>>
    /\ aConsumed = <<>>
    /\ aCalls = 0

AudioInit == \E rate \in Rates, dur \in Durations : AudioConstructed(rate, dur)

AudioParked == AudioConstructed(20, 15)

AudioSteps ==
    \/ AudioStartThread
    \/ AudioStartStream
    \/ AudioStartRaises
    \/ AudioCallback
    \/ WriterGet
    \/ WriterTimeout
    \/ WriterLoop
    \/ WriterFlush
    \/ AudioStopFlag
    \/ AudioStopStream
    \/ AudioStopPut
    \/ AudioStopJoin

\* The samples of the chunk files, in seq order.
PersistedSamples == Flatten([i \in 1..Len(aChunks) |-> aChunks[i].samples])

-----------------------------------------------------------------------------
(* ScreenRecorder *)

NoRegion == <<>>
\* (left, top, right, bottom) rectangles a window under the cursor may have;
\* the second reaches beyond the screen.
Regions == {<<0, 0, 2, 2>>, <<1, 1, 5, 4>>}
\* img.size of a full-screen grab, and the monitor's box
ScreenSize == <<4, 3>>

\* _crop_if_needed: the box handed to img.crop, the whole image if no region
CropBox(region) ==
    IF region = NoRegion THEN <<0, 0, ScreenSize[1], ScreenSize[2]>>
    ELSE LET w == ScreenSize[1]
             h == ScreenSize[2]
             left_c == Max(0, Min(w, region[1]))
             top_c == Max(0, Min(h, region[2]))
             right_c == Max(left_c, Min(w, region[3]))
             bottom_c == Max(top_c, Min(h, region[4]))
         IN  <<left_c, top_c, right_c, bottom_c>>

\* _grab_region_mss: the box grabbed, as (left, top, right, bottom)
MssBox(region) ==
    IF region = NoRegion THEN <<0, 0, ScreenSize[1], ScreenSize[2]>> ELSE region

RegionMeta(r) == [kind |-> "meta", idx |-> 0, region |-> r]
FrameEvent(i) == [kind |-> "frame", idx |-> i, region |-> NoRegion]

ScreenUnchanged(changed) ==
    /\ UNCHANGED sDx
    /\ IF "sRegion" \in changed THEN TRUE ELSE UNCHANGED sRegion
    /\ IF "sRunning" \in changed THEN TRUE ELSE UNCHANGED sRunning
    /\ IF "sStopCalled" \in changed THEN TRUE ELSE UNCHANGED <<sStopCalled, sStops, sStopRaised>>
    /\ IF "sFailed" \in changed THEN TRUE ELSE UNCHANGED sFailed
    /\ IF "sPc" \in changed THEN TRUE ELSE UNCHANGED sPc
    /\ IF "sUsed" \in changed THEN TRUE ELSE UNCHANGED sUsed
    /\ IF "sCap" \in changed THEN TRUE ELSE UNCHANGED sCap
    /\ IF "sIdx" \in changed THEN TRUE ELSE UNCHANGED sIdx
    /\ IF "sFrames" \in changed THEN TRUE ELSE UNCHANGED sFrames
    /\ IF "sLog" \in changed THEN TRUE ELSE UNCHANGED sLog
    /\ IF "kPc" \in changed THEN TRUE ELSE UNCHANGED kPc
    /\ IF "sRetargets" \in changed THEN TRUE ELSE UNCHANGED sRetargets
    /\ IF "sSinkOk" \in changed THEN TRUE ELSE UNCHANGED sSinkOk
    /\ IF "sSwallowed" \in changed THEN TRUE ELSE UNCHANGED sSwallowed
    /\ UNCHANGED nonScreenVars

\* run(): self._running = True, on the capture thread
ScreenRunStart ==
    /\ sPc = "new"
    /\ sRunning' = TRUE
    /\ sPc' = "top"
    /\ ScreenUnchanged({"sRunning", "sPc"})

\* run(): `while self._running` finds the flag false
ScreenLoopEnd ==
    /\ sPc = "top"
    /\ ~sRunning
    /\ sPc' = "exit"
    /\ ScreenUnchanged({"sPc"})

\* Where `except Exception: break` sends the capture thread when an
\* iteration raises: out of the loop, to the end of run().
LoopRetries == "top"
LoopAfterError == "exit"

\* run(): the grab raises inside the try
ScreenGrabError ==
    /\ sPc = "top" /\ sRunning
    /\ sIdx < MaxFrames
    /\ sFailed' = TRUE
    /\ sPc' = LoopAfterError
    /\ ScreenUnchanged({"sFailed", "sPc"})

\* run(), dxcam: img = self._grab_fullscreen_dx()
ScreenGrabDx ==
    /\ sPc = "top" /\ sRunning /\ sDx
    /\ sIdx < MaxFrames
    /\ sCap' = sRegion
    /\ sPc' = "crop"
    /\ ScreenUnchanged({"sCap", "sPc"})

\* run(), dxcam: img = self._crop_if_needed(img), which reads self._region
ScreenCropDx ==
    /\ sPc = "crop"
    /\ sUsed' = sRegion
    /\ sPc' = "save"
    /\ ScreenUnchanged({"sUsed", "sPc"})

\* run(), mss: with self._region_lock: r = self._region
ScreenReadMss ==
    /\ sPc = "top" /\ sRunning /\ ~sDx
    /\ sIdx < MaxFrames
    /\ sUsed' = sRegion
    /\ sPc' = "grab"
    /\ ScreenUnchanged({"sUsed", "sPc"})

\* run(), mss: img = self._grab_region_mss(r)
ScreenGrabMss ==
    /\ sPc = "grab"
    /\ sCap' = sRegion
    /\ sPc' = "save"
    /\ ScreenUnchanged({"sCap", "sPc"})

\* run(): img.save(...); self.events_writer.write(...); self._idx += 1, with
\* `except Exception: break` around it
ScreenEmit ==
    /\ sPc = "save"
    /\ sFrames' = Append(sFrames, [idx |-> sIdx, used |-> sUsed, cap |-> sCap,
                                   box |-> IF sDx THEN CropBox(sUsed) ELSE MssBox(sUsed)])
    /\ IF sSinkOk
         THEN /\ sLog' = Append(sLog, FrameEvent(sIdx))
              /\ sIdx' = sIdx + 1
              /\ sPc' = "top"
              /\ UNCHANGED <<sSwallowed, sFailed>>
         ELSE /\ sSwallowed' = TRUE
              /\ sFailed' = TRUE
              /\ sPc' = LoopAfterError
              /\ UNCHANGED <<sLog, sIdx>>
    /\ ScreenUnchanged({"sFrames", "sLog", "sIdx", "sPc", "sSwallowed", "sFailed"})

\* stop(): self._running = False; the camera and the hotkey listener are
\* stopped, each inside try/except Exception, so that a stop that raises
\* (a camera or listener stopped before) is not passed on
ScreenStop ==
    /\ sStops < MaxStops
    /\ sStopCalled' = TRUE
    /\ sStops' = sStops + 1
    /\ sRunning' = FALSE
    /\ \E camRaises, listenerRaises \in BOOLEAN :
         sStopRaised' = (sStopRaised \/ ((camRaises \/ listenerRaises) /\ FALSE))
    /\ ScreenUnchanged({"sStopCalled", "sRunning"})

\* _on_key_press(F9) with a window under the cursor:
\* with self._region_lock: self._region = new_region
KeyPress ==
    /\ kPc = "idle"
    /\ ~sStopCalled
    /\ sRetargets < MaxRetargets
    /\ \E r \in Regions : sRegion' = r
    /\ sRetargets' = sRetargets + 1
    /\ kPc' = "emit"
    /\ ScreenUnchanged({"sRegion", "sRetargets", "kPc"})

\* _on_key_press: self._emit_meta_region(), inside `except Exception: pass`
KeyEmit ==
    /\ kPc = "emit"
    /\ IF sSinkOk
         THEN sLog' = Append(sLog, RegionMeta(sRegion)) /\ UNCHANGED sSwallowed
         ELSE sSwallowed' = TRUE /\ UNCHANGED sLog
    /\ kPc' = "idle"
    /\ ScreenUnchanged({"sLog", "sSwallowed", "kPc"})

\* The storage behind the sink fails: from now on write() raises.
SinkBreaks ==
    /\ sSinkOk
    /\ sSinkOk' = FALSE
    /\ ScreenUnchanged({"sSinkOk"})

\* After __init__, which announces the initial region with a meta event.
ScreenConstructed(dx, region) ==
    /\ sDx = dx
    /\ sRegion = region
    /\ sRunning = FALSE
    /\ sStopCalled = FALSE
    /\ sStops = 0
    /\ sStopRaised = FALSE
    /\ sFailed = FALSE
    /\ sPc = "new"
    /\ sUsed = NoRegion
    /\ sCap = NoRegion
    /\ sIdx = 0
    /\ sFrames = <<>>
    /\ sLog = <<RegionMeta(region)>>
    /\ kPc = "idle"
    /\ sRetargets = 0
    /\ sSinkOk = TRUE
    /\ sSwallowed = FALSE

ScreenInit == \E dx \in BOOLEAN, r \in Regions \cup {NoRegion} : ScreenConstructed(dx, r)

ScreenParked == ScreenConstructed(TRUE, NoRegion)

ScreenSteps ==
    \/ ScreenRunStart
    \/ ScreenLoopEnd
    \/ ScreenGrabError
    \/ ScreenGrabDx
    \/ ScreenCropDx
    \/ ScreenReadMss
    \/ ScreenGrabMss
    \/ ScreenEmit
    \/ ScreenStop
    \/ KeyPress
    \/ KeyEmit
    \/ SinkBreaks

-----------------------------------------------------------------------------
(* InputRecorder: the gamepad loop *)

PadCodes == {"BTN_SOUTH", "ABS_X"}
SyncEvent == [type |-> "Sync", code |-> "SYN_REPORT", state |-> 0]
\* What one hardware reading can report: a button or an axis at a value,
\* whether or not that value is new.
PadEvents ==
    {[type |-> "Key", code |-> "BTN_SOUTH", state |-> v] : v \in {0, 1}}
        \cup {[type |-> "Absolute", code |-> "ABS_X", state |-> v] : v \in {0, 1}}
\* The lists get_gamepad() may return.
PadBatches == {<<e>> : e \in PadEvents} \cup {<<e, SyncEvent>> : e \in PadEvents}

PadUnchanged(changed) ==
    /\ IF "gStop" \in changed THEN TRUE ELSE UNCHANGED gStop
    /\ IF "gPc" \in changed THEN TRUE ELSE UNCHANGED gPc
    /\ IF "gBatch" \in changed THEN TRUE ELSE UNCHANGED gBatch
    /\ IF "gConnected" \in changed THEN TRUE ELSE UNCHANGED gConnected
    /\ IF "gSeen" \in changed THEN TRUE ELSE UNCHANGED <<gSeen, gLast, gEmitted>>
    /\ IF "gLog" \in changed THEN TRUE ELSE UNCHANGED gLog
    /\ IF "gStatus" \in changed THEN TRUE ELSE UNCHANGED gStatus
    /\ IF "gReads" \in changed THEN TRUE ELSE UNCHANGED gReads
    /\ IF "gKbd" \in changed THEN TRUE ELSE UNCHANGED gKbd
    /\ IF "gKeys" \in changed THEN TRUE ELSE UNCHANGED gKeys
    /\ IF "gGen" \in changed THEN TRUE ELSE UNCHANGED gGen
    /\ IF "gKeyEv" \in changed THEN TRUE ELSE UNCHANGED gKeyEv
    /\ IF "gMainPc" \in changed THEN TRUE ELSE UNCHANGED gMainPc
    /\ UNCHANGED nonPadVars

\* start() -> _prepare_keyboard(), _prepare_gamepad(): the keyboard listener
\* and then the gamepad thread are started
PadStart ==
    /\ gPc = "idle"
    /\ ~gStop
    /\ gKbd' = "listening"
    /\ gPc' = "poll"
    /\ PadUnchanged({"gPc", "gKbd"})

NoEvent == <<>>

\* _on_key_press / _on_key_release on the listener's thread ->
\* _emit_input_event -> _emit_event: pending statuses are attached and
\* cleared, and the Event is created, with its id and timestamp
PadKeyEvent ==
    /\ gKbd = "listening"
    /\ gKeyEv = NoEvent
    /\ gKeys < MaxKeys
    /\ gKeyEv' = [code |-> "key", state |-> 1, status |-> gStatus, same |-> FALSE,
                  gen |-> gGen + 1]
    /\ gGen' = gGen + 1
    /\ gStatus' = <<>>
    /\ gKeys' = gKeys + 1
    /\ PadUnchanged({"gKeyEv", "gGen", "gStatus", "gKeys"})

\* _emit_event on the listener's thread: self.events_writer.write(...), which
\* appends the line under the writer's lock
PadKeyWrite ==
    /\ gKeyEv # NoEvent
    /\ gLog' = Append(gLog, gKeyEv)
    /\ gKeyEv' = NoEvent
    /\ PadUnchanged({"gLog", "gKeyEv"})

\* What `except Exception as exc: self._record_status(...); break` and the
\* statement after the loop make of a get_gamepad() that raises: the statuses
\* recorded and how the thread goes on.
ReadErrorUncaught == [status |-> <<>>, pc |-> "crashed"]
ReadErrorCaught == [status |-> <<"gamepad error", "gamepad loop stopped">>, pc |-> "ended"]

\* _gamepad_loop: the stop event is clear and get_gamepad() returns events
PadRead ==
    /\ gPc = "poll" /\ ~gStop /\ gConnected
    /\ gReads < MaxReads
    /\ \E b \in PadBatches : gBatch' = b
    /\ gReads' = gReads + 1
    /\ gPc' = "events"
    /\ PadUnchanged({"gBatch", "gReads", "gPc"})

\* _gamepad_loop: the controller is unplugged and get_gamepad() raises; the
\* error is recorded as a status, the loop is left, and "gamepad loop stopped"
\* is recorded
PadReadError ==
    /\ gPc = "poll" /\ ~gStop /\ gConnected
    /\ gConnected' = FALSE
    /\ gStatus' = gStatus \o ReadErrorCaught.status
    /\ gPc' = ReadErrorCaught.pc
    /\ PadUnchanged({"gConnected", "gStatus", "gPc"})

\* _gamepad_loop: `while not self._stop_event.is_set()` ends the loop
PadLoopExit ==
    /\ gPc = "poll" /\ gStop
    /\ gStatus' = Append(gStatus, "gamepad loop stopped")
    /\ gPc' = "ended"
    /\ PadUnchanged({"gStatus", "gPc"})

\* The condition under which the loop writes a gamepad event for a hardware
\* event, as coded: every event that is not a Sync.
PadEmits(e) == e.type # "Sync"

\* _gamepad_loop: one turn of `for event in events`
PadEvent ==
    /\ gPc = "events"
    /\ IF gBatch = <<>> \/ gStop
       THEN /\ gPc' = "poll"
            /\ gBatch' = <<>>
            /\ UNCHANGED <<gSeen, gLast, gEmitted, gLog, gStatus, gGen>>
       ELSE LET e == Head(gBatch)
                seen == IF e.code \in PadCodes THEN [gSeen EXCEPT ![e.code] = e.state] ELSE gSeen
            IN  /\ gBatch' = Tail(gBatch)
                /\ gSeen' = seen
                /\ UNCHANGED gPc
                /\ IF PadEmits(e)
                   THEN \* _emit_event: pending statuses are attached and cleared
                        /\ gLog' = Append(gLog, [code |-> e.code, state |-> e.state,
                                                 status |-> gStatus,
                                                 same |-> gEmitted /\ seen = gLast,
                                                 gen |-> gGen + 1])
                        /\ gGen' = gGen + 1
                        /\ gStatus' = <<>>
                        /\ gLast' = seen
                        /\ gEmitted' = TRUE
                   ELSE UNCHANGED <<gLast, gEmitted, gLog, gStatus, gGen>>
    /\ PadUnchanged({"gPc", "gBatch", "gSeen", "gLog", "gStatus", "gGen"})

\* stop(): self._running = False; self._stop_event.set(); the listeners are
\* stopped
PadStop ==
    /\ ~gStop
    /\ gPc # "idle"
    /\ gStop' = TRUE
    /\ gKbd' = "stopped"
    /\ gMainPc' = "join"
    /\ PadUnchanged({"gStop", "gKbd", "gMainPc"})

\* stop(): self._gamepad_thread.join(timeout=0.5) returns, the thread ended
\* or not; then _emit_meta("stopped"), which consumes the pending statuses
PadStopMeta ==
    /\ gMainPc = "join"
    /\ gLog' = Append(gLog, [code |-> "inputs stopped", state |-> 0, status |-> gStatus,
                             same |-> FALSE, gen |-> gGen + 1])
    /\ gGen' = gGen + 1
    /\ gStatus' = <<>>
    /\ gMainPc' = "stopped"
    /\ PadUnchanged({"gLog", "gStatus", "gMainPc", "gGen"})

PadInit ==
    /\ gStop = FALSE
    /\ gPc = "idle"
    /\ gBatch = <<>>
    /\ gConnected = TRUE
    /\ gSeen = [c \in PadCodes |-> 0]
    /\ gLast = [c \in PadCodes |-> 0]
    /\ gEmitted = FALSE
    /\ gLog = <<>>
    /\ gStatus = <<>>
    /\ gReads = 0
    /\ gKbd = "off"
    /\ gKeys = 0
    /\ gGen = 0
    /\ gKeyEv = NoEvent
    /\ gMainPc = "run"

PadSteps ==
    \/ PadStart
    \/ PadKeyEvent
    \/ PadKeyWrite
    \/ PadRead
    \/ PadReadError
    \/ PadLoopExit
    \/ PadEvent
    \/ PadStop
    \/ PadStopMeta

-----------------------------------------------------------------------------
(* The recorder CLI: main() from the installation of the signal handlers   *)
(* on, the _stop closure, and the producer threads writing to the sink.    *)
(* The main thread is a stack of frames; a frame's todo lists the steps it *)
(* has still to run.  A signal pushes an invocation of _stop on top of     *)
(* whatever the main thread is doing; only the top frame runs.             *)

Op(name) == [o |-> name, l |-> ""]
Acq(lock) == [o |-> "acquire", l |-> lock]

\* JsonlWriter.write: with self._lock: self._f.write(...)
WriteOps == <<Acq("writer"), Op("write")>>
\* InputRecorder._record_status / _consume_statuses: with self._status_lock: ...
StatusOps == <<Acq("status"), Op("status")>>
\* InputRecorder._emit_meta: _consume_statuses(), then events_writer.write(...)
EmitMetaOps == StatusOps \o WriteOps
\* JsonlWriter.close: with self._lock: try: flush() finally: close()
CloseOps == <<Acq("writer"), Op("close")>>

\* def _stop(*_object): stop_event.set(); screen.stop(); input_rec.stop();
\* audio_rec.stop(); writer.close()
StopBody == <<Op("set_event"), Op("screen_stop"), Op("input_stop"), Op("audio_stop")>> \o CloseOps

\* main() after signal.signal(...): t_screen.start(); input_rec.start();
\* try: wait for stop_event; finally: _stop()
MainBody == <<Op("thread_start"), Op("input_start"), Op("wait"), Op("finally")>>

Producers == {"screen", "gamepad"}
\* Lock owners: a frame of the main thread is named by its depth (1, 2, ...),
\* a producer thread by a negative number.
ProdId(p) == IF p = "screen" THEN 0 - 1 ELSE 0 - 2

Depth == Len(cFrames)
Top == cFrames[Depth]
TopIs(name) == cFrames # <<>> /\ Top.todo # <<>> /\ Head(Top.todo).o = name
\* The top frame with its first step replaced by the steps `ops`.
Advance(ops) == [cFrames EXCEPT ![Depth].todo = ops \o Tail(Top.todo)]

\* An exception leaves the top frame: frames are unwound down to main()'s
\* try block if main() is inside it (the finally clause then runs _stop and
\* the exception is re-raised), else main() is left.
RECURSIVE Unwind(_)
Unwind(frs) ==
    IF frs = <<>> THEN <<>>
    ELSE LET f == frs[Len(frs)] IN
         IF f.fn = "main" /\ f.todo # <<>> /\ Head(f.todo).o = "wait"
         THEN [frs EXCEPT ![Len(frs)].todo = <<Op("finally"), Op("reraise")>>]
         ELSE Unwind(SubSeq(frs, 1, Len(frs) - 1))

\* Leaving `with` blocks releases the locks the unwound frames hold.
Raise ==
    /\ cFrames' = Unwind(SubSeq(cFrames, 1, Depth - 1))
    /\ cLock' = [l \in DOMAIN cLock |-> IF cLock[l] > 0 THEN Free ELSE cLock[l]]
    /\ cRaised' = cRaised \cup {Top.n}
    /\ cCrashed' = (Unwind(SubSeq(cFrames, 1, Depth - 1)) = <<>>)

CliUnchanged(changed) ==
    /\ UNCHANGED <<cHasInput, cHasAudio>>
    /\ IF "cFrames" \in changed THEN TRUE ELSE UNCHANGED cFrames
    /\ IF "cSignals" \in changed THEN TRUE ELSE UNCHANGED cSignals
    /\ IF "cStopCalls" \in changed THEN TRUE ELSE UNCHANGED cStopCalls
    /\ IF "cRaised" \in changed THEN TRUE ELSE UNCHANGED <<cRaised, cCrashed>>
    /\ IF "cStopEvent" \in changed THEN TRUE ELSE UNCHANGED cStopEvent
    /\ IF "cInRunning" \in changed THEN TRUE ELSE UNCHANGED cInRunning
    /\ IF "cLock" \in changed THEN TRUE ELSE UNCHANGED cLock
    /\ IF "cOpen" \in changed THEN TRUE ELSE UNCHANGED cOpen
    /\ IF "cWritten" \in changed THEN TRUE ELSE UNCHANGED cWritten
    /\ IF "cCloseCalls" \in changed THEN TRUE ELSE UNCHANGED cCloseCalls
    /\ IF "pPc" \in changed THEN TRUE ELSE UNCHANGED pPc
    /\ IF "pRun" \in changed THEN TRUE ELSE UNCHANGED pRun
    /\ IF "pWrites" \in changed THEN TRUE ELSE UNCHANGED pWrites
    /\ IF "cLate" \in changed THEN TRUE ELSE UNCHANGED cLate
    /\ UNCHANGED nonCliVars

StopFrame(n) == [fn |-> "stop", n |-> n, todo |-> StopBody]

\* SIGINT or SIGTERM arrives: the interpreter runs _stop on the main thread,
\* between two steps of whatever the main thread was running.
Signal ==
    /\ cFrames # <<>>
    /\ cSignals < MaxSignals
    /\ cSignals' = cSignals + 1
    /\ cStopCalls' = cStopCalls + 1
    /\ cFrames' = Append(cFrames, StopFrame(cStopCalls + 1))
    /\ CliUnchanged({"cFrames", "cSignals", "cStopCalls"})

\* t_screen.start()
CliThreadStart ==
    /\ TopIs("thread_start")
    /\ pPc' = [pPc EXCEPT !["screen"] = "new"]
    /\ cFrames' = Advance(<<>>)
    /\ CliUnchanged({"cFrames", "pPc"})

\* if input_rec: input_rec.start(): _running = True, _stop_event.clear(), the
\* _prepare_* helpers either start the gamepad thread or record a status,
\* then _emit_meta("started")
CliInputStart ==
    /\ TopIs("input_start")
    /\ IF cHasInput
       THEN /\ cInRunning' = TRUE
            /\ \/ /\ pPc' = [pPc EXCEPT !["gamepad"] = "top"]
                  /\ pRun' = [pRun EXCEPT !["gamepad"] = TRUE]
                  /\ cFrames' = Advance(EmitMetaOps)
               \/ /\ cFrames' = Advance(StatusOps \o EmitMetaOps)
                  /\ UNCHANGED <<pPc, pRun>>
       ELSE /\ cFrames' = Advance(<<>>)
            /\ UNCHANGED <<cInRunning, pPc, pRun>>
    /\ CliUnchanged({"cFrames", "cInRunning", "pPc", "pRun"})

\* Lock.acquire on the main thread: it waits until the lock is free
CliAcquire ==
    /\ TopIs("acquire")
    /\ cLock[Head(Top.todo).l] = Free
    /\ cLock' = [cLock EXCEPT ![Head(Top.todo).l] = Depth]
    /\ cCloseCalls' = IF Top.todo[2].o = "close" THEN cCloseCalls + 1 ELSE cCloseCalls
    /\ cFrames' = Advance(<<>>)
    /\ CliUnchanged({"cFrames", "cLock", "cCloseCalls"})

\* the body of `with self._status_lock`, and the release of the lock
CliStatus ==
    /\ TopIs("status")
    /\ cLock' = [cLock EXCEPT !["status"] = Free]
    /\ cFrames' = Advance(<<>>)
    /\ CliUnchanged({"cFrames", "cLock"})

\* the body of `with self._lock` in write(): on a closed file self._f.write
\* raises ValueError
CliWrite ==
    /\ TopIs("write")
    /\ IF cOpen
       THEN /\ cWritten' = cWritten + 1
            /\ cLock' = [cLock EXCEPT !["writer"] = Free]
            /\ cFrames' = Advance(<<>>)
            /\ UNCHANGED <<cRaised, cCrashed>>
       ELSE /\ Raise
            /\ UNCHANGED cWritten
    /\ CliUnchanged({"cFrames", "cLock", "cWritten", "cRaised"})

\* the body of `with self._lock` in close(): on a closed file self._f.flush()
\* raises ValueError, and the finally clause's self._f.close() does nothing
CliClose ==
    /\ TopIs("close")
    /\ IF cOpen
       THEN /\ cOpen' = FALSE
            /\ cLock' = [cLock EXCEPT !["writer"] = Free]
            /\ cFrames' = Advance(<<>>)
            /\ UNCHANGED <<cRaised, cCrashed>>
       ELSE /\ Raise
            /\ UNCHANGED cOpen
    /\ CliUnchanged({"cFrames", "cLock", "cOpen", "cRaised"})

\* while not stop_event.is_set(): stop_event.wait(0.25)
CliWait ==
    /\ TopIs("wait")
    /\ cStopEvent
    /\ cFrames' = Advance(<<>>)
    /\ CliUnchanged({"cFrames"})

\* finally: _stop()
CliFinally ==
    /\ TopIs("finally")
    /\ cStopCalls' = cStopCalls + 1
    /\ cFrames' = Append(Advance(<<>>), StopFrame(cStopCalls + 1))
    /\ CliUnchanged({"cFrames", "cStopCalls"})

\* a frame has run all its steps and returns; or the finally clause ends and
\* the exception it interrupted is raised again
CliReturn ==
    /\ cFrames # <<>>
    /\ IF Top.todo = <<>> THEN TRUE ELSE Head(Top.todo).o = "reraise"
    /\ cFrames' = SubSeq(cFrames, 1, Depth - 1)
    /\ cCrashed' = (Top.todo # <<>>)
    /\ UNCHANGED cRaised
    /\ CliUnchanged({"cFrames", "cRaised"})

\* _stop: stop_event.set(), then screen.stop(): screen._running = False
CliStopFlags ==
    /\ TopIs("set_event") \/ TopIs("screen_stop")
    /\ IF TopIs("set_event")
       THEN cStopEvent' = TRUE /\ UNCHANGED pRun
       ELSE pRun' = [pRun EXCEPT !["screen"] = FALSE] /\ UNCHANGED cStopEvent
    /\ cFrames' = Advance(<<>>)
    /\ CliUnchanged({"cFrames", "cStopEvent", "pRun"})

\* _stop: if input_rec: input_rec.stop(), which returns at once unless
\* _running; else clears _running, sets _stop_event, stops the listeners,
\* joins the gamepad thread for at most 0.5 s and calls _emit_meta("stopped")
CliInputStop ==
    /\ TopIs("input_stop")
    /\ IF cHasInput /\ cInRunning
       THEN /\ cInRunning' = FALSE
            /\ pRun' = [pRun EXCEPT !["gamepad"] = FALSE]
            /\ cFrames' = Advance(EmitMetaOps)
       ELSE /\ cFrames' = Advance(<<>>)
            /\ UNCHANGED <<cInRunning, pRun>>
    /\ CliUnchanged({"cFrames", "cInRunning", "pRun"})

\* _stop: if audio_rec: audio_rec.stop(): flag, stream, sentinel, a join of
\* at most 5 s, then _emit_meta("stopped"), whether it was running or not
CliAudioStop ==
    /\ TopIs("audio_stop")
    /\ cFrames' = Advance(IF cHasAudio THEN WriteOps ELSE <<>>)
    /\ CliUnchanged({"cFrames"})

\* a producer thread begins: ScreenRecorder.run sets self._running = True
ProdBegin(p) ==
    /\ pPc[p] = "new"
    /\ pPc' = [pPc EXCEPT ![p] = "top"]
    /\ pRun' = [pRun EXCEPT ![p] = TRUE]
    /\ CliUnchanged({"pPc", "pRun"})

\* a producer's loop tests its flag; if it goes on it has an event and
\* calls events_writer.write
ProdLoop(p) ==
    /\ pPc[p] = "top"
    /\ pRun[p] => pWrites[p] < MaxProdWrites
    /\ pPc' = [pPc EXCEPT ![p] = IF pRun[p] THEN "acquire" ELSE "exit"]
    /\ cLate' = (cLate \/ (pRun[p] /\ cCloseCalls > 0))
    /\ CliUnchanged({"pPc", "cLate"})

\* JsonlWriter.write on a producer thread: with self._lock
ProdAcquire(p) ==
    /\ pPc[p] = "acquire"
    /\ cLock["writer"] = Free
    /\ cLock' = [cLock EXCEPT !["writer"] = ProdId(p)]
    /\ pPc' = [pPc EXCEPT ![p] = "write"]
    /\ CliUnchanged({"pPc", "cLock"})

\* JsonlWriter.write on a producer thread: self._f.write raises ValueError on
\* a closed file, which ends the producer's loop
ProdWrite(p) ==
    /\ pPc[p] = "write"
    /\ cLock' = [cLock EXCEPT !["writer"] = Free]
    /\ IF cOpen
       THEN /\ cWritten' = cWritten + 1
            /\ pWrites' = [pWrites EXCEPT ![p] = pWrites[p] + 1]
            /\ pPc' = [pPc EXCEPT ![p] = "top"]
       ELSE /\ pPc' = [pPc EXCEPT ![p] = "exit"]
            /\ UNCHANGED <<cWritten, pWrites>>
    /\ CliUnchanged({"pPc", "cLock", "cWritten", "pWrites"})

\* main() right after signal.signal(SIGTERM, _stop)
CliStarted(hasInput, hasAudio) ==
    /\ cHasInput = hasInput
    /\ cHasAudio = hasAudio
    /\ cFrames = <<[fn |-> "main", n |-> 0, todo |-> MainBody]>>
    /\ cSignals = 0
    /\ cStopCalls = 0
    /\ cRaised = {}
    /\ cCrashed = FALSE
    /\ cStopEvent = FALSE
    /\ cInRunning = FALSE
    /\ cLock = [l \in {"writer", "status"} |-> Free]
    /\ cOpen = TRUE
    /\ cWritten = 0
    /\ cCloseCalls = 0
    /\ pPc = [p \in Producers |-> "unstarted"]
    /\ pRun = [p \in Producers |-> FALSE]
    /\ pWrites = [p \in Producers |-> 0]
    /\ cLate = FALSE

CliInit == \E i \in BOOLEAN, a \in BOOLEAN : CliStarted(i, a)

CliParked == CliStarted(FALSE, FALSE)

CliSteps ==
    \/ Signal
    \/ CliThreadStart
    \/ CliInputStart
    \/ CliAcquire
    \/ CliStatus
    \/ CliWrite
    \/ CliClose
    \/ CliWait
    \/ CliFinally
    \/ CliReturn
    \/ CliStopFlags
    \/ CliInputStop
    \/ CliAudioStop
    \/ \E p \in Producers : ProdBegin(p) \/ ProdLoop(p) \/ ProdAcquire(p) \/ ProdWrite(p)

\* The main thread waits for a lock that a frame below its top frame holds:
\* that frame cannot run before the top frame returns.
SelfDeadlock ==
    /\ TopIs("acquire")
    /\ cLock[Head(Top.todo).l] > 0
    /\ cLock[Head(Top.todo).l] < Depth

-----------------------------------------------------------------------------
(* SessionManager and the Session it proxies.  Session's writer comes from *)
(* sdk.logging, which is not among the sources: what its close() does on a *)
(* second call is left open (it returns, or it raises).                    *)

NoDoc == <<>>
\* _write_meta(status): the payload dumped to session_meta.json; cfg is
\* self.cfg.__dict__ at the time of the call, session_dir and created_ts are
\* the values __init__ computed
MetaPayload(status) ==
    [status |-> status, cfg |-> mCfg, session_dir |-> "dir", created_ts |-> "created"]

\* SessionManager.start(): self.session.start(), which sets
\* start_ns = now_monotonic_ns(); then self._write_meta("running")
SessStart ==
    /\ mCalls < MaxSessCalls
    /\ mCalls' = mCalls + 1
    /\ mStartNs' = mClock
    /\ mStatus' = "running"
    /\ mDoc' = MetaPayload("running")
    /\ mDoc0' = IF mDoc0 = NoDoc THEN MetaPayload("running") ELSE mDoc0
    /\ mLast' = "start"
    /\ mFirstOrigin' = IF mFirstOrigin = 0 THEN mClock ELSE mFirstOrigin
    /\ UNCHANGED <<mClock, mWOpen, mEverStopped, mTimer, mRead, mCfg>>
    /\ UNCHANGED nonSessVars

\* The caller, who keeps the SessionConfig it passed to SessionManager (the
\* manager stores the reference: self.cfg = cfg), assigns to its fps field.
SessCfgAssign ==
    /\ \E fps \in {30, 60} : fps # mCfg /\ mCfg' = fps
    /\ UNCHANGED <<mClock, mStartNs, mStatus, mWOpen, mCalls, mFirstOrigin, mEverStopped,
                   mTimer, mRead, mDoc, mDoc0, mLast>>
    /\ UNCHANGED nonSessVars

\* SessionManager.stop(): self.session.stop(), which closes the writer; then
\* self._write_meta("stopped"), unless the close raised
SessStop ==
    /\ mCalls < MaxSessCalls
    /\ mCalls' = mCalls + 1
    /\ mEverStopped' = TRUE
    /\ mWOpen' = FALSE
    /\ \/ /\ mStatus' = "stopped"
          /\ mDoc' = MetaPayload("stopped")
          /\ mDoc0' = IF mDoc0 = NoDoc THEN MetaPayload("stopped") ELSE mDoc0
          /\ mLast' = "stop"
       \/ ~mWOpen /\ UNCHANGED <<mStatus, mDoc, mDoc0, mLast>>
    /\ UNCHANGED <<mClock, mStartNs, mFirstOrigin, mTimer, mRead, mCfg>>
    /\ UNCHANGED nonSessVars

\* time passes
SessTick ==
    /\ mClock < 1 + MaxTicks
    /\ mClock' = mClock + 1
    /\ UNCHANGED <<mStartNs, mStatus, mWOpen, mCalls, mFirstOrigin, mEverStopped,
                   mTimer, mRead, mCfg, mDoc, mDoc0, mLast>>
    /\ UNCHANGED nonSessVars

\* (now - start_ns) // NS_PER_MS; the clock of the model counts half
\* milliseconds, two to the millisecond.
MsSince(start, now) == (now - start) \div 2

\* A reading of a session clock: which one, whether an origin had been
\* recorded, and the value returned (Raised if the call raised).
Raised == 0 - 1
Reading(op, origin, out) == [op |-> op, origin |-> origin, out |-> out]

\* Session._base(), which stamps every event Session emits:
\* ms_since_start = ms_since(self.start_ns)
SessStamp ==
    /\ mRead' = Reading("stamp", mStartNs # 0, MsSince(mStartNs, mClock))
    /\ UNCHANGED <<mClock, mStartNs, mStatus, mWOpen, mCalls, mFirstOrigin, mEverStopped,
                   mTimer, mCfg, mDoc, mDoc0, mLast>>
    /\ UNCHANGED nonSessVars

\* SessionTimer.start()
TimerStart ==
    /\ mTimer' = [started_ns |-> mClock, stopped_ns |-> mTimer.stopped_ns, running |-> TRUE]
    /\ UNCHANGED <<mClock, mStartNs, mStatus, mWOpen, mCalls, mFirstOrigin, mEverStopped,
                   mRead, mCfg, mDoc, mDoc0, mLast>>
    /\ UNCHANGED nonSessVars

\* SessionTimer.elapsed_ms: end = now if running else stopped_ns;
\* 0.0 if started_ns == 0 else (end - started_ns) / NS_PER_MS
TimerElapsed ==
    /\ LET end == IF mTimer.running THEN mClock ELSE mTimer.stopped_ns IN
         mRead' = Reading("elapsed", mTimer.started_ns # 0,
                          IF mTimer.started_ns = 0 THEN 0
                          ELSE MsSince(mTimer.started_ns, end))
    /\ UNCHANGED <<mClock, mStartNs, mStatus, mWOpen, mCalls, mFirstOrigin, mEverStopped,
                   mTimer, mCfg, mDoc, mDoc0, mLast>>
    /\ UNCHANGED nonSessVars

\* SessionTimer.stop(): assert self.running; stopped_ns = now; running =
\* False; return self.elapsed_ms
TimerStop ==
    /\ IF mTimer.running
       THEN /\ mTimer' = [mTimer EXCEPT !.stopped_ns = mClock, !.running = FALSE]
            /\ mRead' = Reading("stop", TRUE, MsSince(mTimer.started_ns, mClock))
       ELSE /\ mRead' = Reading("stop", mTimer.started_ns # 0, Raised)
            /\ UNCHANGED mTimer
    /\ UNCHANGED <<mClock, mStartNs, mStatus, mWOpen, mCalls, mFirstOrigin, mEverStopped,
                   mCfg, mDoc, mDoc0, mLast>>
    /\ UNCHANGED nonSessVars

\* After SessionManager.__init__: directories made, Session constructed with
\* start_ns = 0, no metadata file yet.
SessInit ==
    /\ mClock = 1
    /\ mStartNs = 0
    /\ mStatus = "none"
    /\ mWOpen = TRUE
    /\ mCalls = 0
    /\ mFirstOrigin = 0
    /\ mEverStopped = FALSE
    /\ mTimer = [started_ns |-> 0, stopped_ns |-> 0, running |-> FALSE]
    /\ mRead = Reading("none", TRUE, 0)
    /\ mCfg = 30
    /\ mDoc = NoDoc
    /\ mDoc0 = NoDoc
    /\ mLast = "none"

SessSteps ==
    \/ SessStart
    \/ SessStop
    \/ SessTick
    \/ SessStamp
    \/ SessCfgAssign
    \/ TimerStart
    \/ TimerElapsed
    \/ TimerStop

-----------------------------------------------------------------------------
(* The recorder CLI: main() from the first meta event to the start of the  *)
(* producers, with InputRecorder.start() and its _prepare_* helpers.       *)

\* The options of a run (--inputs, --audio; the capture_* arguments of
\* InputRecorder) and whether each optional dependency is there: sounddevice
\* (AudioRecorder is not None), pynput.keyboard, pynput.mouse, and the inputs
\* library with at least one gamepad.
LaunchConfigs ==
    [inputs : BOOLEAN, audio : BOOLEAN, audioLib : BOOLEAN,
     keyboard : BOOLEAN, keyboardLib : BOOLEAN,
     mouse : BOOLEAN, mouseLib : BOOLEAN,
     gamepad : BOOLEAN, gamepadLib : BOOLEAN]

Backends == {"keyboard", "mouse", "gamepad"}
BackendOn(cfg, b) ==
    CASE b = "keyboard" -> cfg.keyboard /\ cfg.keyboardLib
      [] b = "mouse" -> cfg.mouse /\ cfg.mouseLib
      [] b = "gamepad" -> cfg.gamepad /\ cfg.gamepadLib

\* A meta event of the log: what it is about, and the producers or backends
\* it reports as not running.
MetaEvent(about, off, status) == [kind |-> "meta", about |-> about, off |-> off, status |-> status]

\* region = None; if all(v is not None for v in (left, top, right, bottom)):
\* region = (left, top, right, bottom).  None makes ScreenRecorder capture
\* the full frame.
RegionOptions == {"left", "top", "right", "bottom"}
RegionArg(given) == IF given = RegionOptions THEN "box" ELSE "full"

LaunchUnchanged(changed) ==
    /\ UNCHANGED <<lCfg, lGiven>>
    /\ IF "lRegion" \in changed THEN TRUE ELSE UNCHANGED lRegion
    /\ IF "lLog" \in changed THEN TRUE ELSE UNCHANGED lLog
    /\ IF "lStarted" \in changed THEN TRUE ELSE UNCHANGED lStarted
    /\ IF "lStatus" \in changed THEN TRUE ELSE UNCHANGED lStatus
    /\ IF "lEcho" \in changed THEN TRUE ELSE UNCHANGED lEcho
    /\ UNCHANGED nonLaunchVars

\* writer.write(event_dump(Event(kind="meta", data=SessionMeta(name=name)))):
\* name, created_ts_ms, game, notes
LaunchSessionMeta ==
    /\ lPc = "meta"
    /\ lLog' = Append(lLog, MetaEvent("session", {}, <<>>))
    /\ lPc' = "screen"
    /\ LaunchUnchanged({"lLog"})

\* screen = ScreenRecorder(...), whose constructor writes the region meta
\* event; input_rec = InputRecorder(...) if inputs else None
LaunchConstruct ==
    /\ lPc = "screen"
    /\ lRegion' = RegionArg(lGiven)
    /\ lLog' = Append(lLog, MetaEvent("region", {}, <<>>))
    /\ lPc' = "audio"
    /\ LaunchUnchanged({"lLog", "lRegion"})

\* if audio: if AudioRecorder is None: typer.echo(..., err=True)
\* else: audio_rec = AudioRecorder(...); audio_rec.start()
LaunchAudio ==
    /\ lPc = "audio"
    /\ IF lCfg.audio /\ lCfg.audioLib
       THEN /\ lStarted' = lStarted \cup {"audio"}
            /\ lLog' = Append(lLog, MetaEvent("audio", {}, <<>>))
            /\ UNCHANGED lEcho
       ELSE /\ lEcho' = IF lCfg.audio THEN lEcho + 1 ELSE lEcho
            /\ UNCHANGED <<lStarted, lLog>>
    /\ lPc' = "thread"
    /\ LaunchUnchanged({"lStarted", "lLog", "lEcho"})

\* t_screen.start(); if input_rec: input_rec.start() is entered
LaunchScreenThread ==
    /\ lPc = "thread"
    /\ lStarted' = lStarted \cup {"screen"}
    /\ lPc' = IF lCfg.inputs THEN "keyboard" ELSE "launched"
    /\ LaunchUnchanged({"lStarted"})

\* _prepare_keyboard, _prepare_mouse, _prepare_gamepad: the backend is
\* started, or the reason why not is recorded as a status
LaunchPrepare(b, next) ==
    /\ lPc = b
    /\ IF BackendOn(lCfg, b)
       THEN lStarted' = lStarted \cup {b} /\ UNCHANGED lStatus
       ELSE lStatus' = Append(lStatus, b) /\ UNCHANGED lStarted
    /\ lPc' = next
    /\ LaunchUnchanged({"lStarted", "lStatus"})

\* _emit_meta("started"): the flags of the three backends, and the pending
\* statuses, which are consumed
LaunchInputsMeta ==
    /\ lPc = "inputs_meta"
    /\ lLog' = Append(lLog, MetaEvent("inputs", {b \in Backends : ~BackendOn(lCfg, b)}, lStatus))
    /\ lStatus' = <<>>
    /\ lStarted' = lStarted \cup {"inputs"}
    /\ lPc' = "launched"
    /\ LaunchUnchanged({"lLog", "lStatus", "lStarted"})

LaunchStarted(cfg, given) ==
    /\ lCfg = cfg
    /\ lGiven = given
    /\ lRegion = "unset"
    /\ lPc = "meta"
    /\ lLog = <<>>
    /\ lStarted = {}
    /\ lStatus = <<>>
    /\ lEcho = 0

LaunchInit == \E cfg \in LaunchConfigs, given \in SUBSET RegionOptions : LaunchStarted(cfg, given)

\* The defaults: every option on, every library there.
LaunchParked ==
    LaunchStarted([inputs |-> TRUE, audio |-> TRUE, audioLib |-> TRUE,
                   keyboard |-> TRUE, keyboardLib |-> TRUE,
                   mouse |-> TRUE, mouseLib |-> TRUE,
                   gamepad |-> TRUE, gamepadLib |-> TRUE], {})

LaunchSteps ==
    \/ LaunchSessionMeta
    \/ LaunchConstruct
    \/ LaunchAudio
    \/ LaunchScreenThread
    \/ LaunchPrepare("keyboard", "mouse")
    \/ LaunchPrepare("mouse", "gamepad")
    \/ LaunchPrepare("gamepad", "inputs_meta")
    \/ LaunchInputsMeta

\* The producers and input backends a run leaves out: disabled by an option,
\* or their optional dependency missing.
Omitted ==
    (IF lCfg.inputs THEN {b \in Backends : ~BackendOn(lCfg, b)} ELSE {"inputs"})
        \cup (IF lCfg.audio /\ lCfg.audioLib THEN {} ELSE {"audio"})

-----------------------------------------------------------------------------
(* SystemRecorder: start(), stop() and the polling threads running _run.   *)

NoThread == 0
SysThreads == 1..MaxSysStarts

\* str(exc) of an exception out of _collect_sample; an exception raised
\* without arguments has the empty text.
ExcTexts == {"", "sensor"}
\* self._gpu.last_error after a failed GPU sample
GpuTexts == {"gpu"}

SysUnchanged(changed) ==
    /\ IF "yStop" \in changed THEN TRUE ELSE UNCHANGED yStop
    /\ IF "yThread" \in changed THEN TRUE ELSE UNCHANGED yThread
    /\ IF "yMainPc" \in changed THEN TRUE ELSE UNCHANGED yMainPc
    /\ IF "yPc" \in changed THEN TRUE ELSE UNCHANGED yPc
    /\ IF "yMsg" \in changed THEN TRUE ELSE UNCHANGED <<yMsg, yThen>>
    /\ IF "yEmitted" \in changed THEN TRUE ELSE UNCHANGED yEmitted
    /\ IF "yLog" \in changed THEN TRUE ELSE UNCHANGED yLog
    /\ IF "yStarts" \in changed THEN TRUE ELSE UNCHANGED yStarts
    /\ IF "yTicks" \in changed THEN TRUE ELSE UNCHANGED yTicks
    /\ IF "yOccurred" \in changed THEN TRUE ELSE UNCHANGED yOccurred
    /\ UNCHANGED nonSysVars

SysEvent(kind, msg, t) == [kind |-> kind, error |-> msg, thread |-> t]

\* self._thread and self._thread.is_alive()
SysAlive == yThread # NoThread /\ yPc[yThread] # "ended"

\* start(): unless a thread is alive: the stop event is cleared, the static
\* meta event is written, a new polling thread is created and started
SysStart ==
    /\ yMainPc = "idle"
    /\ ~SysAlive
    /\ yStarts < MaxSysStarts
    /\ yStop' = FALSE
    /\ yLog' = Append(yLog, SysEvent("static", "", NoThread))
    /\ yStarts' = yStarts + 1
    /\ yThread' = yStarts + 1
    /\ yPc' = [yPc EXCEPT ![yStarts + 1] = "top"]
    /\ SysUnchanged({"yStop", "yLog", "yStarts", "yThread", "yPc"})

\* stop(): self._stop_event.set()
SysStopSet ==
    /\ yMainPc = "idle"
    /\ yStarts > 0
    /\ yStop' = TRUE
    /\ yMainPc' = "join"
    /\ SysUnchanged({"yStop", "yMainPc"})

\* stop(): self._thread.join(timeout=2.0) returns: the thread has ended, or
\* it is busy in a sample and the 2 s pass; then self._thread = None
SysStopJoin ==
    /\ yMainPc = "join"
    /\ yThread # NoThread => yPc[yThread] \in {"ended", "collect", "check", "add"}
    /\ yThread' = NoThread
    /\ yMainPc' = "idle"
    /\ SysUnchanged({"yThread", "yMainPc"})

\* _run: while not self._stop_event.is_set()
SysLoopTop(t) ==
    /\ yPc[t] = "top"
    /\ ~yStop => yTicks < MaxSysTicks
    /\ yPc' = [yPc EXCEPT ![t] = IF yStop THEN "ended" ELSE "collect"]
    /\ yTicks' = IF yStop THEN yTicks ELSE yTicks + 1
    /\ SysUnchanged({"yPc", "yTicks"})

\* _run: sample = self._collect_sample() returns a sample, which is written
SysCollectOk(t) ==
    /\ yPc[t] = "collect"
    /\ yLog' = Append(yLog, SysEvent("system", "", t))
    /\ yPc' = [yPc EXCEPT ![t] = "wait"]
    /\ SysUnchanged({"yLog", "yPc"})

\* _collect_sample: the GPU sample is empty and last_error is set: it calls
\* _emit_error(last_error) and then returns the sample.  Or _collect_sample
\* raises and _run calls _emit_error(str(exc)); no sample is written.
SysCollectError(t) ==
    /\ yPc[t] = "collect"
    /\ \E m \in GpuTexts \cup ExcTexts :
         /\ yMsg' = [yMsg EXCEPT ![t] = m]
         /\ yThen' = [yThen EXCEPT ![t] = m \in GpuTexts]
         /\ yOccurred' = yOccurred \cup {m}
    /\ yPc' = [yPc EXCEPT ![t] = "check"]
    /\ SysUnchanged({"yMsg", "yOccurred", "yPc"})

\* The sample event that follows an error notice inside one tick, if any.
SysAfterNotice(t) == IF yThen[t] THEN <<SysEvent("system", "", t)>> ELSE <<>>

\* _emit_error: if not message or message in self._emitted_errors: return
SysKnown(msg, emitted) == msg = "" \/ msg \in emitted

SysCheck(t) ==
    /\ yPc[t] = "check"
    /\ IF SysKnown(yMsg[t], yEmitted)
       THEN /\ yLog' = yLog \o SysAfterNotice(t)
            /\ yPc' = [yPc EXCEPT ![t] = "wait"]
       ELSE /\ yPc' = [yPc EXCEPT ![t] = "add"]
            /\ UNCHANGED yLog
    /\ SysUnchanged({"yLog", "yPc"})

\* _emit_error: self._emitted_errors.add(message); the notice is written
SysEmit(t) ==
    /\ yPc[t] = "add"
    /\ yEmitted' = yEmitted \cup {yMsg[t]}
    /\ yLog' = Append(yLog, SysEvent("notice", yMsg[t], t)) \o SysAfterNotice(t)
    /\ yPc' = [yPc EXCEPT ![t] = "wait"]
    /\ SysUnchanged({"yEmitted", "yLog", "yPc"})

\* _run: self._stop_event.wait(wait_for) returns: the interval has passed or
\* the event was set
SysWait(t) ==
    /\ yPc[t] = "wait"
    /\ yPc' = [yPc EXCEPT ![t] = "top"]
    /\ SysUnchanged({"yPc"})

\* After __init__.
SysInit ==
    /\ yStop = FALSE
    /\ yThread = NoThread
    /\ yMainPc = "idle"
    /\ yPc = [t \in SysThreads |-> "none"]
    /\ yMsg = [t \in SysThreads |-> ""]
    /\ yThen = [t \in SysThreads |-> FALSE]
    /\ yEmitted = {}
    /\ yLog = <<>>
    /\ yStarts = 0
    /\ yTicks = 0
    /\ yOccurred = {}

SysSteps ==
    \/ SysStart
    \/ SysStopSet
    \/ SysStopJoin
    \/ \E t \in SysThreads :
         \/ SysLoopTop(t)
         \/ SysCollectOk(t)
         \/ SysCollectError(t)
         \/ SysCheck(t)
         \/ SysEmit(t)
         \/ SysWait(t)

\* The error-notice events of the log that carry a message.
Notices(msg) == {i \in 1..Len(yLog) : yLog[i].kind = "notice" /\ yLog[i].error = msg}

-----------------------------------------------------------------------------
(* config.paths: get_paths, Paths.from_sdk_if_available, Paths.ensure_all. *)
(* A path is the sequence of its components.                               *)

RootKinds == {"data", "models", "logs"}
NoPaths == <<>>

\* _env_or_default_data_root and its two siblings:
\* Path(os.getenv("CONANBOT_..._ROOT", _platform_default_base() / kind))
EnvOrDefault(env, k) == IF k \in env THEN <<"env", k>> ELSE <<"home", k>>

\* Paths.from_sdk_if_available: the three roots from SDK_CONFIG.paths if the
\* import succeeds, else Paths.from_env_and_repo()
RootsFromEnv(sdk, env) == [k \in RootKinds |-> EnvOrDefault(env, k)]
RootsFrom(sdk, env) ==
    IF sdk THEN [k \in RootKinds |-> <<"sdk", k>>]
    ELSE [k \in RootKinds |-> EnvOrDefault(env, k)]

\* Paths.sessions_root and Paths.session_dir
SessionsRoot(roots) == roots["data"] \o <<"raw", "sessions">>
SessionDir(roots, name) == SessionsRoot(roots) \o <<name>>

\* The list ensure_all walks: the three roots, assets and tmp inside the
\* repository, then the standard subfolders of the data root.
Required(roots) ==
    << roots["data"], roots["models"], roots["logs"],
       <<"repo", "data", "assets">>, <<"repo", ".tmp">>,
       SessionsRoot(roots),
       roots["data"] \o <<"processed">>,
       roots["data"] \o <<"models", "production">>,
       roots["data"] \o <<"logs", "training">>,
       roots["data"] \o <<"logs", "inference">>,
       roots["data"] \o <<"logs", "system">> >>

Prefixes(p) == {SubSeq(p, 1, n) : n \in 1..Len(p)}

\* p.mkdir(parents=True, exist_ok=True) succeeds unless p or one of its
\* parents is a regular file
MkdirAlways(p, files) == TRUE
MkdirOk(p, files) == Prefixes(p) \cap files = {}

\* ensure_all: the loop stops at the first mkdir that raises
RECURSIVE EnsureAll(_, _, _)
EnsureAll(list, dirs, files) ==
    IF list = <<>> THEN [dirs |-> dirs, ok |-> TRUE]
    ELSE IF MkdirOk(Head(list), files)
         THEN EnsureAll(Tail(list), dirs \cup Prefixes(Head(list)), files)
         ELSE [dirs |-> dirs, ok |-> FALSE]

\* get_paths(force_refresh): if force_refresh or no singleton yet, the
\* singleton is replaced and then ensure_all runs; the singleton is returned
GetPaths(force) ==
    /\ IF force \/ hSingleton = NoPaths
       THEN LET roots == RootsFrom(hSdk, hEnv)
                made == EnsureAll(Required(roots), hDirs, hFiles)
            IN  /\ hSingleton' = roots
                /\ hDirs' = made.dirs
                /\ hCall' = [force |-> force, sdk |-> hSdk, env |-> hEnv, files |-> hFiles,
                             got |-> roots,
                             out |-> IF made.ok THEN "returned" ELSE "raised"]
       ELSE /\ hCall' = [force |-> force, sdk |-> hSdk, env |-> hEnv, files |-> hFiles,
                         got |-> hSingleton, out |-> "returned"]
            /\ UNCHANGED <<hSingleton, hDirs>>
    /\ UNCHANGED <<hEnv, hSdk, hFiles, hChanges>>
    /\ UNCHANGED nonPathVars

\* The environment: a CONANBOT_*_ROOT variable is set or unset
PathsSetEnv(k) ==
    /\ hChanges < MaxEnvChanges
    /\ hChanges' = hChanges + 1
    /\ hEnv' = IF k \in hEnv THEN hEnv \ {k} ELSE hEnv \cup {k}
    /\ UNCHANGED <<hSdk, hFiles, hDirs, hSingleton, hCall>>
    /\ UNCHANGED nonPathVars

\* The environment: sdk.config becomes importable, or stops being so
PathsSdk ==
    /\ hChanges < MaxEnvChanges
    /\ hChanges' = hChanges + 1
    /\ hSdk' = ~hSdk
    /\ UNCHANGED <<hEnv, hFiles, hDirs, hSingleton, hCall>>
    /\ UNCHANGED nonPathVars

\* The places where something else may have put a regular file.
Blockers == {<<"env", "data">>, <<"sdk", "data">>, <<"home", "data", "raw">>}

\* The environment: a regular file appears where no directory is
PathsMakeFile(p) ==
    /\ p \notin hDirs
    /\ Prefixes(p) \cap hFiles = {}
    /\ hFiles' = hFiles \cup {p}
    /\ UNCHANGED <<hEnv, hSdk, hDirs, hSingleton, hChanges, hCall>>
    /\ UNCHANGED nonPathVars

PathsStarted(env, sdk) ==
    /\ hEnv = env
    /\ hSdk = sdk
    /\ hFiles = {}
    /\ hDirs = {}
    /\ hSingleton = NoPaths
    /\ hChanges = 0
    /\ hCall = [force |-> FALSE, sdk |-> sdk, env |-> env, files |-> {}, got |-> NoPaths,
                out |-> "none"]

PathsInit == \E env \in SUBSET RootKinds, sdk \in BOOLEAN : PathsStarted(env, sdk)

PathsParked == PathsStarted({}, FALSE)

PathsSteps ==
    \/ \E force \in BOOLEAN : GetPaths(force)
    \/ \E k \in RootKinds : PathsSetEnv(k)
    \/ PathsSdk
    \/ \E p \in Blockers : PathsMakeFile(p)

-----------------------------------------------------------------------------
(* AudioRecorder._resolve_device, from the device's channel counts on.     *)

\* Python's `a or b` on integers, None counting as 0
Or(a, b) == IF a # 0 THEN a ELSE b

\* requested: the channels argument (0 for None); max_input, max_output: the
\* device's channel counts; wasapi: the device's host API is WASAPI, the one
\* with loopback capture; prefer: the prefer_loopback argument
DeviceArgs ==
    [requested : {0, 1, 3}, max_input : 0..2, max_output : 0..2,
     wasapi : BOOLEAN, prefer : BOOLEAN]

NoResult == <<>>

\* derived_channels = requested or max_input or max_output or 1, then the
\* branch on the channel counts, then max(1, derived_channels)
ResolveDevice(a) ==
    LET derived == Or(Or(Or(a.requested, a.max_input), a.max_output), 1) IN
    IF a.max_input = 0 /\ a.max_output > 0
    THEN IF a.prefer /\ a.wasapi
         THEN [out |-> "ok", loopback |-> TRUE,
               channels |-> Max(1, Or(Or(Min(derived, a.max_output), a.max_output), 1))]
         ELSE [out |-> "raised", loopback |-> FALSE, channels |-> 0]
    ELSE [out |-> "ok", loopback |-> FALSE,
          channels |-> Max(1, IF a.max_input > 0 THEN Min(derived, a.max_input) ELSE derived)]

\* start() -> self._resolve_device()
DeviceResolve ==
    /\ dRes = NoResult
    /\ dRes' = ResolveDevice(dArgs)
    /\ UNCHANGED dArgs
    /\ UNCHANGED nonDeviceVars

DeviceInit == dArgs \in DeviceArgs /\ dRes = NoResult

DeviceParked ==
    /\ dArgs = [requested |-> 0, max_input |-> 2, max_output |-> 0, wasapi |-> FALSE,
                prefer |-> TRUE]
    /\ dRes = NoResult

DeviceSteps == DeviceResolve

-----------------------------------------------------------------------------
(* plugins.writers.jsonl: JsonlEventWriter, written to by several threads. *)
(* write() is three calls on the file object, with no lock around them.    *)

\* event.model_dump_json() of the k-th event of thread t: one JSON object,
\* with no line break in it
PlugJson(t, k) == <<"{", Digit[t + 1], Digit[k + 1], "}">>

\* write(): self.f.write(event.model_dump_json())
PlugWriteJson(t) ==
    /\ ePc[t] = "idle"
    /\ eN[t] < MaxPlugWrites
    /\ eBuf' = eBuf \o PlugJson(t, eN[t] + 1)
    /\ ePc' = [ePc EXCEPT ![t] = "nl"]
    /\ UNCHANGED <<eDisk, eN>>
    /\ UNCHANGED nonPlugVars

\* write(): self.f.write("\n")
PlugWriteNl(t) ==
    /\ ePc[t] = "nl"
    /\ eBuf' = Append(eBuf, NL)
    /\ ePc' = [ePc EXCEPT ![t] = "flush"]
    /\ UNCHANGED <<eDisk, eN>>
    /\ UNCHANGED nonPlugVars

\* write(): self.f.flush(), which hands over whatever the file object holds
PlugFlush(t) ==
    /\ ePc[t] = "flush"
    /\ eDisk' = eDisk \o eBuf
    /\ eBuf' = <<>>
    /\ ePc' = [ePc EXCEPT ![t] = "idle"]
    /\ eN' = [eN EXCEPT ![t] = eN[t] + 1]
    /\ UNCHANGED nonPlugVars

\* After open().
PlugInit ==
    /\ eBuf = <<>>
    /\ eDisk = <<>>
    /\ ePc = [t \in Threads |-> "idle"]
    /\ eN = [t \in Threads |-> 0]

PlugSteps ==
    \E t \in Threads :
        \/ PlugWriteJson(t)
        \/ PlugWriteNl(t)
        \/ PlugFlush(t)

-----------------------------------------------------------------------------
(* apps.ui_api: ws_events, tailing events.jsonl while a recorder appends   *)
(* to it.  Sizes and offsets count characters.                             *)

\* The k-th line the recorder appends, without its line break.
TailLineText(k) == <<Digit[k + 1]>>

\* chunk.splitlines(), then `if line.strip()`: the lines of the chunk, a last
\* one without line break included, the empty ones left out
SplitLines(chunk) ==
    SelectSeq(LinesOf(chunk, <<>>) \o <<TailLine(chunk, <<>>)>>, LAMBDA l : l # <<>>)

\* The recorder appends one whole line to the file.
TailAppend ==
    /\ Len(uLines) < MaxAppends
    /\ uFile' = uFile \o TailLineText(Len(uLines) + 1) \o <<NL>>
    /\ uLines' = Append(uLines, TailLineText(Len(uLines) + 1))
    /\ UNCHANGED <<uLast, uCur, uPc, uSent>>
    /\ UNCHANGED nonTailVars

\* ws_events: after the sleep, cur = f.stat().st_size; if cur > last_size
TailStat ==
    /\ uPc = "sleep"
    /\ uCur' = Len(uFile)
    /\ uPc' = IF Len(uFile) > uLast THEN "read" ELSE "sleep"
    /\ UNCHANGED <<uFile, uLines, uLast, uSent>>
    /\ UNCHANGED nonTailVars

\* ws_events: fh.seek(last_size); chunk = fh.read(), which reads up to the
\* end the file has by now; each line is sent; last_size = cur
TailRead ==
    /\ uPc = "read"
    /\ uSent' = uSent \o SplitLines(SubSeq(uFile, uLast + 1, Len(uFile)))
    /\ uLast' = uCur
    /\ uPc' = "sleep"
    /\ UNCHANGED <<uFile, uLines, uCur>>
    /\ UNCHANGED nonTailVars

\* The connection has been accepted and, in the same step of the event loop,
\* last_size = f.stat().st_size taken; the file exists, empty or with a line
\* written before.
TailStarted(file) ==
    /\ uFile = file
    /\ uLines = <<>>
    /\ uLast = Len(file)
    /\ uCur = 0
    /\ uPc = "sleep"
    /\ uSent = <<>>

TailInit == \E file \in {<<>>, <<"0", NL>>} : TailStarted(file)

TailParked == TailStarted(<<>>)

TailSteps ==
    \/ TailAppend
    \/ TailStat
    \/ TailRead

-----------------------------------------------------------------------------
(* plugins.writers.s3: S3EventWriter, used by one thread *)

S3Events == {1, 2}

\* event.model_dump_json()
S3Json(e) == <<"{", Digit[e + 1], "}">>

\* put_object returns, raises without having stored the object, or raises
\* (a lost response) after the bucket stored it.
PutOutcomes == {"ok", "raised", "raised_stored"}

S3Writer == [buf |-> zBuf, count |-> zCount, part |-> zPart, store |-> zStore]

\* An _upload() whose failed put_object also gives up the buffered text.
UploadDropsBuffer(w, conf, o) ==
    IF ~conf \/ w.buf = <<>> THEN w @@ [put |-> FALSE, raised |-> FALSE]
    ELSE IF o = "ok"
    THEN [buf |-> <<>>, count |-> 0, part |-> w.part + 1,
          store |-> [w.store EXCEPT ![w.part] = w.buf],
          put |-> TRUE, raised |-> FALSE]
    ELSE [buf |-> <<>>, count |-> 0, part |-> w.part,
          store |-> [w.store EXCEPT ![w.part] = IF o = "raised_stored" THEN w.buf ELSE @],
          put |-> TRUE, raised |-> TRUE]

\* _upload(): nothing without client or bucket, nothing for an empty buffer;
\* else put_object under the key of _part, and only when it returned
\* _part += 1, a fresh buffer, _count = 0.
Upload(w, conf, o) ==
    IF ~conf \/ w.buf = <<>> THEN w @@ [put |-> FALSE, raised |-> FALSE]
    ELSE IF o = "ok"
    THEN [buf |-> <<>>, count |-> 0, part |-> w.part + 1,
          store |-> [w.store EXCEPT ![w.part] = w.buf],
          put |-> TRUE, raised |-> FALSE]
    ELSE [w EXCEPT !.store[w.part] = IF o = "raised_stored" THEN w.buf ELSE @]
         @@ [put |-> TRUE, raised |-> TRUE]

S3Assign(w) ==
    /\ zBuf' = w.buf
    /\ zCount' = w.count
    /\ zPart' = w.part
    /\ zStore' = w.store

S3Outcome(op, w) ==
    [op |-> op, out |-> IF w.raised THEN "raised" ELSE "returned", put |-> w.put]

\* write(event): the JSON text and a line break go to the buffer, _count += 1,
\* and from rotate_every on _upload()
S3Write(e, o) ==
    /\ Len(zLog) < MaxS3Calls
    /\ LET w0 == [S3Writer EXCEPT !.buf = zBuf \o S3Json(e) \o <<NL>>,
                                  !.count = zCount + 1]
           w  == IF w0.count >= RotateEvery THEN Upload(w0, zConf, o)
                 ELSE w0 @@ [put |-> FALSE, raised |-> FALSE]
       IN /\ S3Assign(w)
          /\ zLog' = Append(zLog, S3Outcome("write", w))
    /\ zWritten' = Append(zWritten, e)
    /\ UNCHANGED zConf
    /\ UNCHANGED nonS3Vars

\* close(): _upload(final=True)
S3Close(o) ==
    /\ Len(zLog) < MaxS3Calls
    /\ LET w == Upload(S3Writer, zConf, o)
       IN /\ S3Assign(w)
          /\ zLog' = Append(zLog, S3Outcome("close", w))
    /\ UNCHANGED <<zConf, zWritten>>
    /\ UNCHANGED nonS3Vars

\* __init__ and open()
S3Started(conf) ==
    /\ zConf = conf
    /\ zBuf = <<>>
    /\ zCount = 0
    /\ zPart = 0
    /\ zStore = [n \in 0..MaxS3Calls |-> <<>>]
    /\ zWritten = <<>>
    /\ zLog = <<>>

S3Init == \E conf \in BOOLEAN : S3Started(conf)

S3Parked == S3Started(TRUE)

S3Steps ==
    \/ \E e \in S3Events, o \in PutOutcomes : S3Write(e, o)
    \/ \E o \in PutOutcomes : S3Close(o)

\* The bodies of the parts numbered below n, one after the other.
PartsBelow(n) == Flatten([i \in 1..n |-> zStore[i - 1]])

\* The text of the events written: each event's JSON and a line break.
S3Text(es) == Flatten([i \in 1..Len(es) |-> S3Json(es[i]) \o <<NL>>])

-----------------------------------------------------------------------------
(* The specifications *)

InitWriter == WriterInit /\ AudioParked /\ ScreenParked /\ PadInit /\ CliParked /\ SessInit /\ LaunchParked /\ SysInit /\ PathsParked /\ DeviceParked /\ PlugInit /\ TailParked /\ S3Parked
SpecWriter == InitWriter /\ [][WriterSteps]_vars

SpecWriterLife == InitWriter /\ [][WriterLifeSteps]_vars

InitAudio == AudioInit /\ WriterParked /\ ScreenParked /\ PadInit /\ CliParked /\ SessInit /\ LaunchParked /\ SysInit /\ PathsParked /\ DeviceParked /\ PlugInit /\ TailParked /\ S3Parked
SpecAudio == InitAudio /\ [][AudioSteps]_vars

\* The thread that called stop() keeps running; nothing is assumed about the
\* writer thread or the backend's callback thread.
SpecAudioStop ==
    /\ SpecAudio
    /\ WF_vars(AudioStopStream)
    /\ WF_vars(AudioStopPut)
    /\ WF_vars(AudioStopJoin)

InitScreen == ScreenInit /\ WriterParked /\ AudioParked /\ PadInit /\ CliParked /\ SessInit /\ LaunchParked /\ SysInit /\ PathsParked /\ DeviceParked /\ PlugInit /\ TailParked /\ S3Parked
SpecScreen == InitScreen /\ [][ScreenSteps]_vars

InitGamepad == PadInit /\ WriterParked /\ AudioParked /\ ScreenParked /\ CliParked /\ SessInit /\ LaunchParked /\ SysInit /\ PathsParked /\ DeviceParked /\ PlugInit /\ TailParked /\ S3Parked
SpecGamepad == InitGamepad /\ [][PadSteps]_vars

InitSession == SessInit /\ WriterParked /\ AudioParked /\ ScreenParked /\ PadInit /\ CliParked /\ LaunchParked /\ SysInit /\ PathsParked /\ DeviceParked /\ PlugInit /\ TailParked /\ S3Parked
SpecSession == InitSession /\ [][SessSteps]_vars

InitLaunch == LaunchInit /\ WriterParked /\ AudioParked /\ ScreenParked /\ PadInit /\ CliParked /\ SessInit /\ SysInit /\ PathsParked /\ DeviceParked /\ PlugInit /\ TailParked /\ S3Parked
SpecLaunch == InitLaunch /\ [][LaunchSteps]_vars

InitSystem == SysInit /\ WriterParked /\ AudioParked /\ ScreenParked /\ PadInit /\ CliParked /\ SessInit /\ LaunchParked /\ PathsParked /\ DeviceParked /\ PlugInit /\ TailParked /\ S3Parked
SpecSystem == InitSystem /\ [][SysSteps]_vars

InitPaths == PathsInit /\ WriterParked /\ AudioParked /\ ScreenParked /\ PadInit /\ CliParked /\ SessInit /\ LaunchParked /\ SysInit /\ DeviceParked /\ PlugInit /\ TailParked /\ S3Parked
SpecPaths == InitPaths /\ [][PathsSteps]_vars

InitDevice == DeviceInit /\ WriterParked /\ AudioParked /\ ScreenParked /\ PadInit /\ CliParked /\ SessInit /\ LaunchParked /\ SysInit /\ PathsParked /\ PlugInit /\ TailParked /\ S3Parked
SpecDevice == InitDevice /\ [][DeviceSteps]_vars

InitPlug == PlugInit /\ WriterParked /\ AudioParked /\ ScreenParked /\ PadInit /\ CliParked /\ SessInit /\ LaunchParked /\ SysInit /\ PathsParked /\ DeviceParked /\ TailParked /\ S3Parked
SpecPlug == InitPlug /\ [][PlugSteps]_vars

InitTail == TailInit /\ WriterParked /\ AudioParked /\ ScreenParked /\ PadInit /\ CliParked /\ SessInit /\ LaunchParked /\ SysInit /\ PathsParked /\ DeviceParked /\ PlugInit /\ S3Parked
SpecTail == InitTail /\ [][TailSteps]_vars

InitS3 == S3Init /\ WriterParked /\ AudioParked /\ ScreenParked /\ PadInit /\ CliParked /\ SessInit /\ LaunchParked /\ SysInit /\ PathsParked /\ DeviceParked /\ PlugInit /\ TailParked
SpecS3 == InitS3 /\ [][S3Steps]_vars

InitCli == CliInit /\ WriterParked /\ AudioParked /\ ScreenParked /\ PadInit /\ SessInit /\ LaunchParked /\ SysInit /\ PathsParked /\ DeviceParked /\ PlugInit /\ TailParked /\ S3Parked
SpecCli == InitCli /\ [][CliSteps]_vars

-----------------------------------------------------------------------------
(* C1: N threads each calling JsonlWriter.write M times, with no close in  *)
(* between, leave exactly N*M newline-terminated lines in the event log,   *)
(* each the complete serialization of exactly one written record; at no    *)
(* time does the log hold a line that is truncated or made of parts of two *)
(* records.                                                                *)
C1_SinkAtomicity ==
    LET lines == LinesOf(LogText, <<>>)
        dumps == {JsonDumps(o) : o \in wObjs}
    IN  /\ \A i \in 1..Len(lines) : lines[i] \in dumps
        /\ AllWritesDone =>
              /\ TailLine(LogText, <<>>) = <<>>
              /\ Len(lines) = NThreads * MWrites
              /\ \A o \in wObjs :
                    Cardinality({i \in 1..Len(lines) : lines[i] = JsonDumps(o)}) = 1

\* All writes returned, one of the records held a line break in its payload,
\* and the threads' lines alternate in the log.
C1_Witness ==
    /\ AllWritesDone
    /\ wN = NThreads * MWrites
    /\ \E o \in wObjs : o.data = <<NL>>
    /\ LET lines == LinesOf(LogText, <<>>) IN
         \E i \in 1..(Len(lines) - 2) :
            lines[i][2] # lines[i + 1][2] /\ lines[i + 1][2] # lines[i + 2][2]

-----------------------------------------------------------------------------
(* C2: whatever the lengths of the blocks the writer loop takes from the   *)
(* queue (empty blocks and blocks spanning several chunks included), the   *)
(* persisted chunks in seq order followed by what is still pending are the *)
(* samples of those blocks in arrival order, and once the final flush has  *)
(* run the chunks alone are: nothing lost, duplicated or reordered.        *)
C2_Conservation ==
    /\ PersistedSamples \o Flatten(aPending) = aConsumed
    /\ aPendingSamples = SumLen(aPending)
    /\ aWPc = "done" => PersistedSamples = aConsumed
    /\ \A i \in 1..Len(aChunks) : aChunks[i].seq = i - 1

\* The loop consumed an empty block and two full ones, cut a block at a chunk
\* boundary, and flushed the rest as the final chunk.
C2_Witness ==
    /\ aWPc = "done"
    /\ aCalls = 3
    /\ Len(aConsumed) = 4
    /\ aChunkFrames = 3
    /\ Len(aChunks) = 2
    /\ aChunks[2].final

(* C3 as stated: every chunk persisted before the final flush has exactly  *)
(* round(samplerate * chunk_duration) samples, chunk_duration being the    *)
(* constructor's argument; the final chunk is shorter and not empty.       *)
C3_AsStated ==
    \A i \in 1..Len(aChunks) :
        IF aChunks[i].final
        THEN Len(aChunks[i].samples) >= 1
        ELSE Len(aChunks[i].samples) = RoundHalfEven(aRate * aDur, 100)

(* C3 amended: every chunk persisted before the final flush has exactly    *)
(* max(1, round(samplerate * max(0.1, chunk_duration))) samples; only the  *)
(* last chunk, written by the final flush, is shorter, and it is not empty.*)
C3_ChunkLength ==
    LET frames == Max(1, RoundHalfEven(aRate * Max(10, aDur), 100)) IN
    \A i \in 1..Len(aChunks) :
        IF aChunks[i].final
        THEN /\ i = Len(aChunks)
             /\ aWPc = "done"
             /\ Len(aChunks[i].samples) >= 1
             /\ Len(aChunks[i].samples) < frames
        ELSE Len(aChunks[i].samples) = frames

\* A run with chunk_duration below 0.1 s that wrote a full chunk and a
\* shorter final one.
C3_Witness ==
    /\ aDur < 10
    /\ aWPc = "done"
    /\ Len(aChunks) >= 2
    /\ ~aChunks[1].final
    /\ aChunks[Len(aChunks)].final

(* C4: once stop() has returned and the writer thread has ended, every     *)
(* sample the callback delivered is in a persisted chunk: the writer ends  *)
(* only after the stream was stopped, and no block is left in the queue.   *)
C4_NoBlockLeftBehind ==
    (aMainPc = "stopped" /\ aWPc = "done") => PersistedSamples = aDelivered

(* C8: every frame is cropped to the region that was held when the frame   *)
(* was grabbed: a frame grabbed after a retarget uses the new region, a    *)
(* frame grabbed before it the old one, and a retarget never applies to a  *)
(* frame already captured.                                                 *)
C8_RetargetAtomicity ==
    \A i \in 1..Len(sFrames) :
        /\ sFrames[i].used = sFrames[i].cap
        /\ sFrames[i].used \in Regions \cup {NoRegion}

(* C10: a failure of the sink's write inside a producer (capture loop,     *)
(* retarget handler) is never caught and dropped there: it leaves the      *)
(* producer and reaches the orchestrator.                                  *)
C10_SinkFaultSurfaces == ~sSwallowed

(* C9: while gamepad capture runs, a hardware reading that leaves the      *)
(* controller's state identical to the state at the last emitted event     *)
(* emits no further gamepad event, and a disconnect always emits an event. *)
C9_ChangeSuppression ==
    /\ \A i \in 1..Len(gLog) : ~gLog[i].same
    /\ (~gConnected /\ gPc = "ended") => \E i \in 1..Len(gLog) : gLog[i].code = "disconnect"

(* C5: when the session shutdown _stop is invoked more than once (by the   *)
(* signal handler and by main()'s finally clause), no invocation after the *)
(* first raises, and the sink's file is closed by exactly one of them.     *)
C5_IdempotentShutdown ==
    /\ \A n \in cRaised : n < 2
    /\ ~cCrashed

(* C6: the sink is closed only after every producer thread has stopped: no *)
(* producer calls write() on the sink after a close() has started.         *)
C6_CloseAfterProducers == ~cLate

(* C7: a shutdown handler that interrupts the main thread at any point,    *)
(* also inside JsonlWriter.write, inside the status bookkeeping or inside  *)
(* an earlier _stop, runs to completion: it never waits for a lock held by *)
(* the code it interrupted, and it raises nothing.                         *)
C7_ReentrantShutdown ==
    /\ ~SelfDeadlock
    /\ cSignals > 0 => cRaised = {}

(* C11: JsonlWriter.close() may be called any number of times: the first   *)
(* call flushes and releases the file, and no later call raises.           *)
C11_CloseIdempotent == ~wCloseRaised

\* The lines of a text as a set.
LineSet(text) == {LinesOf(text, <<>>)[i] : i \in 1..Len(LinesOf(text, <<>>))}

(* C12: with flush threshold N, the records whose write() has returned and *)
(* that are not yet in storage are never more than N-1, and between writes *)
(* the buffer of an open writer holds exactly (writes so far) mod N        *)
(* records: a flush happens at every N-th write and at no other.           *)
C12_UnflushedBound ==
    /\ Cardinality(UnflushedReturned) <= FlushEvery - 1
    /\ (wOpen /\ wLock = Free) => Len(LinesOf(wBuf, <<>>)) = wN % FlushEvery

C12_Witness ==
    /\ wOpen /\ wLock = Free
    /\ wN = FlushEvery + 1
    /\ Len(LinesOf(wDisk, <<>>)) = FlushEvery
    /\ Cardinality(UnflushedReturned) = 1

(* C13: once a close() has returned, every record whose write() returned   *)
(* is in storage and nothing is left in the buffer, whatever the number of *)
(* writes modulo the flush threshold.                                      *)
C13_CloseFlushes ==
    wClosed > 0 =>
        /\ wBuf = <<>>
        /\ \A o \in wObjs : o.n <= tDone[o.src] => JsonDumps(o) \in LineSet(wDisk)

C13_Witness ==
    /\ wClosed > 0
    /\ wN % FlushEvery # 0
    /\ \E o \in wObjs : o.n <= tDone[o.src]

\* The number a string of decimal digits denotes.
RECURSIVE NumberOf(_)
NumberOf(d) ==
    IF d = <<>> THEN 0
    ELSE 10 * NumberOf(SubSeq(d, 1, Len(d) - 1))
         + (CHOOSE v \in 0..9 : Digit[v + 1] = d[Len(d)])

\* The audio chunk events of the log, in emission order.
AudioChunkEvents == SelectSeq(aEvents, LAMBDA e : e.kind = "audio")

C15_StopObserved == (sStopCalled /\ sPc = "top") => ~sRunning

C17_StoppedIsTerminal ==
    /\ mFirstOrigin # 0 => mStartNs = mFirstOrigin
    /\ mEverStopped => mStatus # "running"

(* C18: a producer or input backend that is disabled by configuration or   *)
(* whose optional dependency is missing is not started, the others are     *)
(* started, and some meta event of the event log records the omission.     *)
C18_OmissionRecorded ==
    lPc = "launched" =>
        \A p \in Omitted :
            /\ p \notin lStarted
            /\ \E i \in 1..Len(lLog) : lLog[i].kind = "meta" /\ p \in lLog[i].off

\* The events of the log a status message is attached to.
AttachedTo(msg) == {i \in 1..Len(gLog) : \E k \in 1..Len(gLog[i].status) : gLog[i].status[k] = msg}

(* C19: a status message the input producer records is attached to exactly *)
(* one emitted event and then no longer pending, and none stays pending    *)
(* forever, also when it is recorded during or after stop(): once stop()   *)
(* has returned and the gamepad thread has ended, nothing is pending.      *)
C19_StatusDelivered ==
    /\ \A msg \in {"gamepad error", "gamepad loop stopped"} :
         Cardinality(AttachedTo(msg)) + Cardinality({k \in 1..Len(gStatus) : gStatus[k] = msg}) <= 1
    /\ (gMainPc = "stopped" /\ gPc = "ended") => gStatus = <<>>

(* C20: across sampling ticks and start/stop cycles of one SystemRecorder  *)
(* an error notice is emitted at most once per distinct message, and, once *)
(* no _emit_error call is in progress, exactly once for each message that  *)
(* has occurred.                                                           *)
C20_ErrorDedup ==
    /\ \A m \in GpuTexts \cup ExcTexts : Cardinality(Notices(m)) <= 1
    /\ (\A t \in SysThreads : yPc[t] \notin {"check", "add"})
           => \A m \in yOccurred : Cardinality(Notices(m)) = 1

(* C21: reading a session clock while no origin has been recorded (before  *)
(* start()) fails fast: neither the elapsed-time query nor the stamping of *)
(* an event returns a value.                                               *)
C21_ClockFailsFast == ~mRead.origin => mRead.out = Raised

(* C22: a gamepad hardware read that raises is recorded as a status and    *)
(* ends the gamepad loop without the exception leaving the thread, and the *)
(* keyboard listener keeps running and emitting until stop() is called.    *)
C22_ReadErrorContained ==
    ~gConnected =>
        /\ gPc = "ended"
        /\ Cardinality(AttachedTo("gamepad error"))
             + Cardinality({k \in 1..Len(gStatus) : gStatus[k] = "gamepad error"})
             + (IF gKeyEv # NoEvent /\ \E k \in 1..Len(gKeyEv.status) :
                                          gKeyEv.status[k] = "gamepad error"
                THEN 1 ELSE 0) = 1
        /\ ~gStop => gKbd = "listening"

C22_Witness ==
    /\ ~gConnected
    /\ \E i \in AttachedTo("gamepad error") : gLog[i].code = "key"

(* C23: a capture or persist error makes the screen loop exit after that   *)
(* iteration, without a retry and without the exception leaving run(); a   *)
(* later stop(), also a repeated one, returns without raising.             *)
C23_LoopExitsOnError ==
    /\ sFailed => sPc = "exit"
    /\ ~sStopRaised

C23_Witness == sFailed /\ sSwallowed /\ sStops = 2

(* C24: a capture region given with only some of its four bounds is        *)
(* rejected at start as a configuration error, before any file, recorder,  *)
(* listener or thread is created, and is never treated as full-frame.      *)
C24_PartialRegionRejected ==
    (lGiven # {} /\ lGiven # RegionOptions) =>
        /\ lLog = <<>>
        /\ lStarted = {}
        /\ lRegion # "full"

(* C25: session_meta.json is rewritten on every lifecycle transition:      *)
(* after each completed start() its status is 'running', after each        *)
(* completed stop() 'stopped', and the configuration, session directory    *)
(* and creation timestamp it records are the same in every rewrite.        *)
C25_MetaRewritten ==
    /\ mLast = "start" => mDoc.status = "running"
    /\ mLast = "stop" => mDoc.status = "stopped"
    /\ mDoc # NoDoc =>
         /\ mDoc.cfg = mDoc0.cfg
         /\ mDoc.session_dir = mDoc0.session_dir
         /\ mDoc.created_ts = mDoc0.created_ts

(* C26: get_paths(force_refresh=True) takes the data, models and logs      *)
(* roots from SDK_CONFIG.paths when the SDK is importable, and otherwise   *)
(* from the CONANBOT_*_ROOT variables, with the platform default for each  *)
(* unset one; when it returns, every directory of ensure_all exists, and   *)
(* session_dir(name) is data_root/raw/sessions/name.                       *)
C26_RootsAndLayout ==
    (hCall.force /\ hCall.out = "returned") =>
        /\ \A k \in RootKinds :
             hCall.got[k] = IF hCall.sdk THEN <<"sdk", k>>
                            ELSE IF k \in hCall.env THEN <<"env", k>> ELSE <<"home", k>>
        /\ \A i \in 1..Len(Required(hCall.got)) : Required(hCall.got)[i] \in hDirs
        /\ SessionDir(hCall.got, "dev_smoke")
             = hCall.got["data"] \o <<"raw", "sessions", "dev_smoke">>

C26_Witness == hCall.force /\ hCall.out = "returned" /\ hCall.sdk /\ hCall.env = RootKinds

(* C27: if a directory get_paths needs cannot be created, because it or a  *)
(* parent of it is a regular file, get_paths(force_refresh=True) raises    *)
(* and returns no Paths object.                                            *)
C27_UncreatableRaises ==
    (hCall.force /\ \E i \in 1..Len(Required(hCall.got)) :
                        Prefixes(Required(hCall.got)[i]) \cap hCall.files # {})
        => hCall.out = "raised"

C27_Witness == hCall.force /\ hCall.out = "raised" /\ <<"home", "data", "raw">> \in hCall.files

(* C28: within one producer, events appear in the event log in the order   *)
(* in which their Event objects were created, also for InputRecorder,      *)
(* whose keyboard and gamepad callbacks run on separate threads.           *)
C28_GenerationOrder ==
    \A i, j \in 1..Len(gLog) : i < j => gLog[i].gen < gLog[j].gen

(* C29: when the resolved audio device has no input channels and some      *)
(* output channels, resolution switches to loopback with the channel count *)
(* capped at the output channels if the host API supports loopback, and    *)
(* fails otherwise; every successful resolution yields at least 1 channel  *)
(* and no more than the device has for the chosen mode.                    *)
C29_DeviceResolution ==
    dRes # NoResult =>
        /\ (dArgs.max_input = 0 /\ dArgs.max_output > 0) =>
             IF dArgs.wasapi
             THEN dRes.out = "ok" /\ dRes.loopback /\ dRes.channels <= dArgs.max_output
             ELSE dRes.out = "raised"
        /\ dRes.out = "ok" =>
             /\ dRes.channels >= 1
             /\ dRes.channels <= (IF dRes.loopback THEN dArgs.max_output ELSE dArgs.max_input)

(* C30: a SystemRecorder emits the static-capabilities meta event once at  *)
(* each start, before the first system sample event, and afterwards        *)
(* exactly one system event per sampling tick until it is stopped: when no *)
(* tick is in progress there are as many system events as ticks.           *)
C30_OneEventPerTick ==
    /\ yLog # <<>> => yLog[1].kind = "static"
    /\ Cardinality({i \in 1..Len(yLog) : yLog[i].kind = "static"}) = yStarts
    /\ (\A t \in SysThreads : yPc[t] \in {"none", "top", "wait", "ended"}) =>
         Cardinality({i \in 1..Len(yLog) : yLog[i].kind = "system"}) = yTicks

(* C31: the hand-off queue between the audio callback and the assembly     *)
(* thread is bounded: however far the assembly thread falls behind, the    *)
(* blocks waiting in the queue stay fewer than the callbacks of a run.     *)
C31_QueueBounded == Cardinality({i \in 1..Len(aQueue) : ~aQueue[i].none}) < MaxCalls

(* C34: after AudioRecorder.stop() has returned, the hand-off queue holds  *)
(* no leftover end-of-stream sentinel, also when the writer thread had     *)
(* already left on its idle timeout: once stop() has returned and the      *)
(* writer thread has ended, no sentinel is in the queue.                   *)
C34_NoLeftoverSentinel ==
    (aMainPc = "stopped" /\ aWPc = "done") => \A i \in 1..Len(aQueue) : ~aQueue[i].none

(* C36: if AudioRecorder.start() raises, for whatever reason, the recorder *)
(* is left as before the call: not marked running, no writer thread alive, *)
(* no open stream.                                                         *)
C36_FailedStartUndone ==
    aMainPc = "start_failed" =>
        /\ ~aRunning
        /\ aWPc \in {"none", "done"}
        /\ aStream # "active"

(* C39: in the audio writer thread the counter _pending_samples always     *)
(* equals the sum of the lengths of the blocks in the pending list, and    *)
(* each time the thread has finished handling an incoming block the        *)
(* counter is strictly less than chunk_frames.                             *)
C39_PendingCounter ==
    /\ aPendingSamples = SumLen(aPending)
    /\ aWPc = "get" => aPendingSamples < aChunkFrames

C39_Witness == aWPc = "get" /\ aPendingSamples > 0 /\ aSeq > 0 /\ Len(aPending[1]) = 1

(* C33: across any sequence of start() and stop() calls of a               *)
(* SystemRecorder at most one polling thread is polling at any time: a     *)
(* thread that stop() abandoned when its join timed out does not go on     *)
(* polling once a later start() has cleared the stop signal: a thread that *)
(* is not the recorder's current one never begins another sample.          *)
C33_OnePollingThread ==
    [][\A t \in SysThreads :
          (yThread # NoThread /\ t # yThread /\ yPc[t] = "top") => yPc'[t] # "collect"]_vars

(* C35: in the event log every frame event whose frame was captured with a *)
(* retargeted region comes after the meta event that announces that        *)
(* region: no frame using a region is logged before the region is          *)
(* announced.                                                              *)
C35_AnnouncedBeforeUse ==
    \A i \in 1..Len(sLog) :
        sLog[i].kind = "frame" =>
            \E j \in 1..(i - 1) : sLog[j] = RegionMeta(sFrames[sLog[i].idx + 1].used)

(* C38: every Paths object get_paths() returns has had ensure_all()        *)
(* complete: after a get_paths(force_refresh=True) that raised during      *)
(* directory creation, a later get_paths() does not return the cached      *)
(* Paths of the failed call, whose directories were not all created.       *)
C38_ReturnedIsEnsured ==
    hCall.out = "returned" =>
        \A i \in 1..Len(Required(hCall.got)) : Required(hCall.got)[i] \in hDirs

(* C32: every flushed line of a file written through JsonlEventWriter is   *)
(* one complete event record, also when write() is called from several     *)
(* threads: a reader of the file never sees a line made of parts of two    *)
(* records.                                                                *)
C32_WholeRecordLines ==
    \A i \in 1..Len(LinesOf(eDisk, <<>>)) :
        \E t \in Threads, k \in 1..MaxPlugWrites : LinesOf(eDisk, <<>>)[i] = PlugJson(t, k)

(* C37: the WebSocket event tail sends every complete line appended to     *)
(* events.jsonl after the connection was accepted exactly once and in file *)
(* order, under every interleaving of its size check and read with the     *)
(* appending writer: what was sent is always the first lines appended, and *)
(* all of them once the tail has caught up with the file.                  *)
C37_TailExactlyOnce ==
    /\ Len(uSent) <= Len(uLines)
    /\ \A i \in 1..Len(uSent) : i <= Len(uLines) => uSent[i] = uLines[i]
    /\ (uPc = "sleep" /\ uLast = Len(uFile)) => Len(uSent) = Len(uLines)

(* C40: for an S3EventWriter with a client and a bucket, the parts already *)
(* numbered and the buffer together always hold the events written, in     *)
(* order and once each, so an upload that raises loses nothing; after a    *)
(* close() that returned, the uploaded parts in part-number order are the  *)
(* events written, every part is made of whole event lines, the part       *)
(* numbers are 0, 1, 2, ... without a gap, and a close() following it puts *)
(* no object.                                                              *)
C40_PartsAreTheEvents ==
    zConf =>
      /\ PartsBelow(zPart) \o zBuf = S3Text(zWritten)
      /\ \A n \in 0..(zPart - 1) : zStore[n] # <<>> /\ TailLine(zStore[n], <<>>) = <<>>
      /\ (Len(zLog) > 0 /\ zLog[Len(zLog)] = [op |-> "close", out |-> "returned", put |-> zLog[Len(zLog)].put])
            => /\ PartsBelow(MaxS3Calls + 1) = S3Text(zWritten)
               /\ \A n \in zPart..MaxS3Calls : zStore[n] = <<>>
      /\ \A i \in 2..Len(zLog) :
            (zLog[i - 1].op = "close" /\ zLog[i - 1].out = "returned" /\ zLog[i].op = "close")
               => ~zLog[i].put

C40_Witness ==
    /\ zConf
    /\ zPart >= 2
    /\ \E i \in 1..Len(zLog) : zLog[i].out = "raised"
    /\ Len(zLog) >= 2
    /\ zLog[Len(zLog)] = [op |-> "close", out |-> "returned", put |-> FALSE]
    /\ zLog[Len(zLog) - 1] = [op |-> "close", out |-> "returned", put |-> TRUE]

====
